---- MODULE Spec2Model ----
(***************************************************************************)
(* Model of the idony orchestration runtime: the reasoning loop            *)
(* (internal/agent/agent.go), the sub-agent manager                        *)
(* (internal/agent/manager.go), the council engine                         *)
(* (internal/agent/council.go) and the sub_agents table of the store       *)
(* (internal/db/db.go).                                                    *)
(*                                                                         *)
(* Strings are sequences of tokens.  A model response is a sequence over   *)
(* the tokens "ws" (white space), "txt" (prose), "<json>", "</json>",      *)
(* "{", "}" and one token per JSON member ("final:A" is the member         *)
(* "final":"A", "final:" is "final":"", "final:5" is a member of the wrong *)
(* JSON type).                                                             *)
(***************************************************************************)
EXTENDS Integers, Sequences, FiniteSets, TLC

\* ------------------------------------------------------------------------
\* Bounds of the model
\* ------------------------------------------------------------------------
MaxRuns == 1        \* size of the identifier space of sub_agents rows
MaxRawLen == 5      \* tokens in a model response (parser specification)
MaxToolsLen == 4    \* characters in a definition's tools field

Null == "NULL"
NoErr == <<>>      \* a nil error; an error is its message

Ids == 1 .. MaxRuns
MainAgent == 0
MainProcs == {MaxRuns + 1, MaxRuns + 2}
Procs == Ids \cup MainProcs
Objs == {MainAgent} \cup Ids

\* ------------------------------------------------------------------------
\* String helpers
\* ------------------------------------------------------------------------
\* the strings of at most n tokens of S
SeqsUpTo(S, n) == UNION {[1 .. k -> S] : k \in 0 .. n}

\* strings.Index: position of the first occurrence of tok in s, 0 when absent
Index(s, tok) ==
  IF \E i \in 1 .. Len(s) : s[i] = tok
  THEN CHOOSE i \in 1 .. Len(s) : s[i] = tok /\ \A j \in 1 .. (i - 1) : s[j] # tok
  ELSE 0

\* strings.LastIndex
LastIndex(s, tok) ==
  IF \E i \in 1 .. Len(s) : s[i] = tok
  THEN CHOOSE i \in 1 .. Len(s) : s[i] = tok /\ \A j \in (i + 1) .. Len(s) : s[j] # tok
  ELSE 0

\* a trim that leaves the string as it is
TrimSpaceNone(s, sp) == s

\* strings.TrimSpace
RECURSIVE TrimLeft(_, _)
TrimLeft(s, sp) == IF s # <<>> /\ Head(s) = sp THEN TrimLeft(Tail(s), sp) ELSE s

RECURSIVE TrimRight(_, _)
TrimRight(s, sp) ==
  IF s # <<>> /\ s[Len(s)] = sp THEN TrimRight(SubSeq(s, 1, Len(s) - 1), sp) ELSE s

TrimSpace(s, sp) == TrimRight(TrimLeft(s, sp), sp)

\* strings.Split(s, sep): the pieces between the separators ("" gives [""])
RECURSIVE Split(_, _)
Split(s, sep) ==
  LET i == Index(s, sep)
  IN IF i = 0 THEN <<s>>
     ELSE <<SubSeq(s, 1, i - 1)>> \o Split(SubSeq(s, i + 1, Len(s)), sep)

\* ------------------------------------------------------------------------
\* Response parsing (agent.go: extractJSON, json.Unmarshal into ThoughtProcess)
\* ------------------------------------------------------------------------
MemberTokens == {"final:A", "final:", "final:5", "tool:a", "tool:z", "tool:", "tool:compact",
                 "thought:x"}

MemberKey == [t \in MemberTokens |->
  CASE t \in {"final:A", "final:", "final:5"} -> "final"
    [] t \in {"tool:a", "tool:z", "tool:", "tool:compact"} -> "tool"
    [] OTHER -> "thought"]

\* the Go string a member carries ("" is <<>>); "final:5" is not a string
MemberValue == [t \in MemberTokens |->
  CASE t = "final:A" -> <<"A">>
    [] t = "tool:a" -> <<"a">>
    [] t = "tool:z" -> <<"z">>
    [] t = "tool:compact" -> <<"compact">>
    [] t = "thought:x" -> <<"x">>
    [] OTHER -> <<>>]

WellTyped(t) == t \notin MemberTokens \/ t # "final:5"

extractJSON(s) ==
  LET start == Index(s, "<json>")
      rest == SubSeq(s, start, Len(s))
      end == Index(rest, "</json>")
  IN IF start # 0 /\ end # 0
     THEN SubSeq(s, start + 1, start + end - 2)
     ELSE LET b == Index(s, "{")
              e == LastIndex(s, "}")
          IN IF b # 0 /\ e # 0 /\ e > b THEN SubSeq(s, b, e) ELSE s

\* the candidate with JSON's insignificant white space removed
StripWs(c) == SelectSeq(c, LAMBDA t : t # "ws")

\* json syntax: one object whose members are member tokens
ValidJSON(c) ==
  LET d == StripWs(c)
  IN /\ Len(d) >= 2
     /\ d[1] = "{"
     /\ d[Len(d)] = "}"
     /\ \A i \in 2 .. (Len(d) - 1) : d[i] \in MemberTokens

\* value of the last well-typed member with the key, "" when there is none
FieldOf(d, key) ==
  LET at == {i \in 1 .. Len(d) : d[i] \in MemberTokens /\ WellTyped(d[i]) /\ MemberKey[d[i]] = key}
  IN IF at = {} THEN <<>>
     ELSE MemberValue[d[CHOOSE i \in at : \A j \in at : j <= i]]

\* json.Unmarshal([]byte(extracted), &tp): err and the decoded ThoughtProcess
Unmarshal(c) ==
  LET d == StripWs(c)
  IN IF ~ValidJSON(c)
     THEN [err |-> TRUE, Thought |-> <<>>, Tool |-> <<>>, Final |-> <<>>]
     ELSE [err |-> \E i \in 1 .. Len(d) : ~WellTyped(d[i]),
           Thought |-> FieldOf(d, "thought"),
           Tool |-> FieldOf(d, "tool"),
           Final |-> FieldOf(d, "final")]

EmptyResponseMsg == <<"Error: The model returned an empty response. It may be too small for this task or experiencing an error.">>

\* the tool request looked at before the final answer
ClassifyToolFirst(raw, tp, tools) ==
  IF TrimSpace(raw, "ws") = <<>> THEN "empty"
  ELSE IF tp.err \/ (tp.Final = <<>> /\ tp.Tool = <<>> /\ tp.Thought = <<>>) THEN "raw"
  ELSE IF tp.Tool # <<>> THEN (IF tp.Tool \in tools THEN "tool" ELSE "notool")
  ELSE IF tp.Final # <<>> THEN "final"
  ELSE "raw"

\* the branch one iteration of internalLoop takes on a raw response whose
\* decoded form is tp: "empty", "raw", "final", "notool" (tool not found), "tool"
Classify(raw, tp, tools) ==
  IF TrimSpace(raw, "ws") = <<>> THEN "empty"
  ELSE IF tp.err \/ (tp.Final = <<>> /\ tp.Tool = <<>> /\ tp.Thought = <<>>) THEN "raw"
  ELSE IF tp.Final # <<>> THEN "final"
  ELSE IF tp.Tool # <<>> THEN (IF tp.Tool \in tools THEN "tool" ELSE "notool")
  ELSE "raw"

\* ------------------------------------------------------------------------
\* State
\* ------------------------------------------------------------------------
VARIABLES
  defs,        \* table sub_agent_definitions: name -> definition
  councils,    \* table councils: name -> members string
  subAgents,   \* table sub_agents: id -> row
  messages,    \* table messages (the durable log of the main conversation)
  agent,       \* the Agent objects: the main agent and one per background run
  run,         \* the goroutines executing Agent.Run / Agent.internalLoop
  thr,         \* the goroutines of runSubAgent / executeCouncilSession
  client,      \* the OllamaClient all agents share
  scheduledTasks, \* table scheduled_tasks: its rows and its AUTOINCREMENT sequence
  sched,       \* the Scheduler: its timers, calendar handlers and executeTask goroutines
  now,         \* the wall clock
  webhooks,    \* table webhooks: id -> webhook
  http,        \* the requests the HTTP server has taken, with their goroutines
  compact,     \* the calls of the compact tool
  call,        \* a call of OllamaClient.GenerateResponse: its attempts and back-offs
  memories,    \* table memories: its rows and its AUTOINCREMENT sequence
  opt,         \* the calls of the optimize_memory tool
  agentMessages, \* table agent_messages
  inbox,       \* the calls of the check_inbox tool
  api          \* the call of the manager's API that returned in the last step

vars == <<defs, councils, subAgents, messages, agent, run, thr, client,
          scheduledTasks, sched, now, webhooks, http, compact,
          call, memories, opt, agentMessages, inbox, api>>

\* names of the registered tools; idony.GetTools() hands the one map to the
\* sub-agent manager, so every tool registered later is in it as well
Registry == {<<"a">>, <<"b">>, <<"compact">>}
ImageInputs == {<<>>, <<"img">>}

NoAgent == [history |-> <<>>, isThinking |-> FALSE, lastUserImages |-> <<>>,
            tools |-> {}, personality |-> <<>>, model |-> <<>>, hasStore |-> FALSE]

IdleRun == [pc |-> "idle", calls |-> 0, answered |-> FALSE, raw |-> <<>>, tool |-> <<>>,
            ret |-> <<>>, err |-> NoErr, expired |-> FALSE, originalModel |-> <<>>,
            caller |-> 0, images |-> <<>>, sentModel |-> <<>>, sentImages |-> <<>>]

\* the model the client is constructed with
DefaultModel == <<"default">>

\* OllamaClient.SetModel
SetModel(c, model) == [c EXCEPT !.Model = model]

\* internalLoop before its for loop: a.client.SetModel(a.model) when the agent
\* has a model of its own
LoopEntered(c, a) == IF a.model # <<>> THEN SetModel(c, a.model) ELSE c

Outcome(op, arg, id, err) == [op |-> op, arg |-> arg, id |-> id, err |-> err]

NoCall == Outcome("none", <<>>, 0, NoErr)

Msg(role, content, images) == [role |-> role, content |-> content, images |-> images]

\* db.go SaveMessage: INSERT INTO messages (role, content)
SaveMessage(log, role, content) == Append(log, [role |-> role, content |-> content])

\* ------------------------------------------------------------------------
\* The reasoning loop (agent.go)
\* ------------------------------------------------------------------------
\* Agent.Run (vision = FALSE) / Agent.RunVision (vision = TRUE) up to the call
\* of internalLoop: the Agent object afterwards
RunEntered(a, userInput, images, vision) ==
  [a EXCEPT !.isThinking = TRUE,
            !.lastUserImages = IF vision THEN images ELSE <<>>,
            !.history = Append(@, Msg("user", userInput, IF vision THEN images ELSE <<>>))]

\* an entry into Run that leaves the durable log as it is
RunEnteredLogSkipped(a, log, userInput, vision) == log

\* ... and the durable log afterwards
RunEnteredLog(a, log, userInput, vision) ==
  IF a.hasStore
  THEN SaveMessage(log, "user", IF vision THEN <<"[Image Attached] ">> \o userInput ELSE userInput)
  ELSE log

\* return from Run: the deferred isThinking = false
Returned(a) == [a EXCEPT !.isThinking = FALSE]

\* a request that carries images in the first call of a Run only
SentImagesFirstOnly(history, calls) ==
  [i \in 1 .. Len(history) |-> IF calls = 1 THEN history[i].images ELSE <<>>]

\* messages := append(system prompt, a.history...): the images each message
\* of the history takes into the request of the Run's calls-th call
SentImages(history, calls) == [i \in 1 .. Len(history) |-> history[i].images]

\* top of the for loop: client.GenerateResponse is called and builds its
\* request from the messages and c.Model; a context whose deadline has passed
\* makes the call fail at once
CallLLM(g, cap) ==
  /\ run[g].pc = "loop"
  /\ IF run[g].expired
     THEN /\ run' = [run EXCEPT ![g].pc = "ret", ![g].ret = <<>>, ![g].answered = FALSE,
                                ![g].err = <<"context deadline exceeded">>]
          /\ agent' = [agent EXCEPT ![IF g \in Ids THEN g ELSE MainAgent] = Returned(@)]
          /\ client' = SetModel(client, run[g].originalModel)
     ELSE /\ run[g].calls < cap
          /\ run' = [run EXCEPT ![g].pc = "llm", ![g].calls = @ + 1,
                                ![g].answered = FALSE, ![g].raw = <<>>,
                                ![g].sentModel = client.Model,
                                ![g].sentImages =
                                   SentImages(agent[IF g \in Ids THEN g ELSE MainAgent].history,
                                              run[g].calls + 1)]
          /\ UNCHANGED <<agent, client>>
  /\ UNCHANGED <<defs, councils, subAgents, messages, thr, scheduledTasks, sched, now, webhooks, http, compact, call, memories, opt, agentMessages, inbox>>
  /\ api' = NoCall

\* a failed model call whose error is also written to the log as the answer
LLMErrorRecorded(g, e) ==
  LET o == IF g \in Ids THEN g ELSE MainAgent
  IN /\ run[g].pc = "llm"
     /\ (e = <<"context deadline exceeded">>) <=> run[g].expired
     /\ run' = [run EXCEPT ![g].pc = "ret", ![g].ret = <<>>, ![g].err = e]
     /\ agent' = [agent EXCEPT ![o] = Returned(@)]
     /\ messages' = IF agent[o].hasStore
                    THEN SaveMessage(messages, "assistant", <<"Error: ">> \o e)
                    ELSE messages
     /\ client' = SetModel(client, run[g].originalModel)
     /\ UNCHANGED <<defs, councils, subAgents, thr, scheduledTasks, sched, now, webhooks, http, compact, call, memories, opt, agentMessages, inbox>>
     /\ api' = NoCall

\* GenerateResponse returns an error: a transport failure, or the context's
\* deadline passed while the call was in flight
LLMError(g, e) ==
  /\ run[g].pc = "llm"
  /\ (e = <<"context deadline exceeded">>) <=> run[g].expired
  /\ run' = [run EXCEPT ![g].pc = "ret", ![g].ret = <<>>, ![g].err = e]
  /\ agent' = [agent EXCEPT ![IF g \in Ids THEN g ELSE MainAgent] = Returned(@)]
  /\ client' = SetModel(client, run[g].originalModel)
  /\ UNCHANGED <<defs, councils, subAgents, messages, thr, scheduledTasks, sched, now, webhooks, http, compact, call, memories, opt, agentMessages, inbox>>
  /\ api' = NoCall

\* the observation for an unknown tool
NotFoundMsg(tool) == <<"Error: Tool '">> \o tool \o <<"' not found.">>

\* the answer internalLoop returns for a response it treats as final
AnswerOf(raw, tp, kind) ==
  CASE kind = "empty" -> EmptyResponseMsg
    [] kind = "final" -> tp.Final
    [] OTHER -> raw

\* GenerateResponse returns rawResponse; the rest of the iteration up to the
\* return, the continue or the call of tool.Execute
LLMReturn(g, rawResponse) ==
  LET o == IF g \in Ids THEN g ELSE MainAgent
      tp == Unmarshal(extractJSON(rawResponse))
      kind == Classify(rawResponse, tp, agent[o].tools)
  IN /\ run[g].pc = "llm"
     /\ ~run[g].expired
     /\ CASE kind = "empty" ->
               /\ run' = [run EXCEPT ![g].pc = "ret", ![g].answered = TRUE, ![g].raw = rawResponse,
                                     ![g].ret = AnswerOf(rawResponse, tp, kind), ![g].err = NoErr]
               /\ agent' = [agent EXCEPT ![o] = Returned(@)]
               /\ client' = SetModel(client, run[g].originalModel)
               /\ UNCHANGED messages
          [] kind \in {"raw", "final"} ->
               /\ run' = [run EXCEPT ![g].pc = "ret", ![g].answered = TRUE, ![g].raw = rawResponse,
                                     ![g].ret = AnswerOf(rawResponse, tp, kind), ![g].err = NoErr]
               /\ agent' = [agent EXCEPT ![o] =
                     Returned([@ EXCEPT !.history =
                        Append(@, Msg("assistant", AnswerOf(rawResponse, tp, kind), <<>>))])]
               /\ messages' = IF agent[o].hasStore
                              THEN SaveMessage(messages, "assistant", AnswerOf(rawResponse, tp, kind))
                              ELSE messages
               /\ client' = SetModel(client, run[g].originalModel)
          [] kind = "notool" ->
               /\ run' = [run EXCEPT ![g].pc = "loop", ![g].answered = TRUE, ![g].raw = rawResponse]
               /\ agent' = [agent EXCEPT ![o].history =
                     Append(@, Msg("assistant", NotFoundMsg(tp.Tool), <<>>))]
               /\ UNCHANGED <<messages, client>>
          [] kind = "tool" ->
               /\ run' = [run EXCEPT ![g].pc = "tool", ![g].answered = TRUE, ![g].raw = rawResponse,
                                     ![g].tool = tp.Tool]
               /\ UNCHANGED <<agent, messages, client>>
     /\ UNCHANGED <<defs, councils, subAgents, thr, scheduledTasks, sched, now, webhooks, http, compact, call, memories, opt, agentMessages, inbox>>
     /\ api' = NoCall

\* the model answers the call in flight with one of the responses raws
LLMReturns(g, raws) ==
  /\ run[g].pc = "llm"
  /\ \E rawResponse \in raws : LLMReturn(g, rawResponse)

\* a tool error that ends the Run as its error
ToolReturnFatal(g, ok) ==
  LET o == IF g \in Ids THEN g ELSE MainAgent
  IN /\ run[g].pc = "tool"
     /\ IF ok
        THEN /\ run' = [run EXCEPT ![g].pc = "loop"]
             /\ agent' = [agent EXCEPT ![o].history =
                   Append(@, Msg("assistant", <<"Observation: ", "res">>, <<>>))]
             /\ UNCHANGED client
        ELSE /\ run' = [run EXCEPT ![g].pc = "ret", ![g].ret = <<>>, ![g].err = <<"e">>]
             /\ agent' = [agent EXCEPT ![o] = Returned(@)]
             /\ client' = SetModel(client, run[g].originalModel)
     /\ UNCHANGED <<defs, councils, subAgents, messages, thr, scheduledTasks, sched, now, webhooks, http, compact, call, memories, opt, agentMessages, inbox>>
     /\ api' = NoCall

\* a tool return that also writes the observation to the durable log
ToolReturnPersisted(g, ok) ==
  LET o == IF g \in Ids THEN g ELSE MainAgent
      result == IF ok THEN <<"res">> ELSE <<"Tool error: ", "e">>
  IN /\ run[g].pc = "tool"
     /\ run' = [run EXCEPT ![g].pc = "loop"]
     /\ agent' = [agent EXCEPT ![o].history =
           Append(@, Msg("assistant", <<"Observation: ">> \o result, <<>>))]
     /\ messages' = IF agent[o].hasStore
                    THEN SaveMessage(messages, "assistant", <<"Observation: ">> \o result)
                    ELSE messages
     /\ UNCHANGED <<defs, councils, subAgents, thr, client, scheduledTasks, sched, now, webhooks, http, compact, call, memories, opt, agentMessages, inbox>>
     /\ api' = NoCall

\* tool.Execute returns (ok = TRUE: a result, ok = FALSE: an error); the
\* observation is appended to the in-memory history only
ToolReturn(g, ok) ==
  LET o == IF g \in Ids THEN g ELSE MainAgent
      result == IF ok THEN <<"res">> ELSE <<"Tool error: ", "e">>
  IN /\ run[g].pc = "tool"
     /\ run' = [run EXCEPT ![g].pc = "loop"]
     /\ agent' = [agent EXCEPT ![o].history =
           Append(@, Msg("assistant", <<"Observation: ">> \o result, <<>>))]
     /\ UNCHANGED <<defs, councils, subAgents, messages, thr, client, scheduledTasks, sched, now, webhooks, http, compact, call, memories, opt, agentMessages, inbox>>
     /\ api' = NoCall

\* a surface calls Run / RunVision on the main agent
MainRun(g, userInput, images) ==
  /\ g \in MainProcs
  /\ run[g].pc = "idle"
  /\ run' = [run EXCEPT ![g].pc = "loop", ![g].originalModel = client.Model,
                        ![g].images = images]
  /\ agent' = [agent EXCEPT ![MainAgent] = RunEntered(@, userInput, images, images # <<>>)]
  /\ messages' = RunEnteredLog(agent[MainAgent], messages, userInput, images # <<>>)
  /\ client' = LoopEntered(client, agent[MainAgent])
  /\ UNCHANGED <<defs, councils, subAgents, thr, scheduledTasks, sched, now, webhooks, http, compact, call, memories, opt, agentMessages, inbox>>
  /\ api' = NoCall

\* Run / RunVision returns to the surface that called it
MainReturn(g) ==
  /\ g \in MainProcs
  /\ run[g].pc = "ret"
  /\ run[g].caller = 0
  /\ run' = [run EXCEPT ![g] = IdleRun]
  /\ UNCHANGED <<defs, councils, subAgents, messages, agent, thr, client, scheduledTasks, sched, now, webhooks, http, compact, call, memories, opt, agentMessages, inbox>>
  /\ api' = NoCall

\* the context a surface passed to Run is done (the HTTP client went away)
Cancel(g) ==
  /\ g \in MainProcs
  /\ run[g].pc \in {"loop", "llm", "tool"}
  /\ ~run[g].expired
  /\ run' = [run EXCEPT ![g].expired = TRUE]
  /\ UNCHANGED <<defs, councils, subAgents, messages, agent, thr, client, scheduledTasks, sched, now, webhooks, http, compact, call, memories, opt, agentMessages, inbox>>
  /\ api' = NoCall

\* the number of turns the in-memory history holds
UserTurns(history) == Cardinality({i \in 1 .. Len(history) : history[i].role = "user"})

\* ------------------------------------------------------------------------
\* The sub_agents and sub_agent_definitions tables (db.go)
\* ------------------------------------------------------------------------
\* an insert that does not reach the table
SaveSubAgentLost(tbl, id, prompt, status, model, personality) == tbl

\* INSERT INTO sub_agents (id, prompt, status, progress, model, personality)
\* VALUES (?, ?, ?, 0, ?, ?); result is read back through COALESCE(result, '')
SaveSubAgent(tbl, id, prompt, status, model, personality) ==
  (id :> [prompt |-> prompt, status |-> status, progress |-> 0, result |-> <<>>,
          model |-> model, personality |-> personality, finished_at |-> Null]) @@ tbl

\* a progress update that also writes the status column
UpdateSubAgentProgressRevive(tbl, id, progress) ==
  [i \in DOMAIN tbl |->
     IF i = id THEN [tbl[i] EXCEPT !.progress = progress, !.status = "running"] ELSE tbl[i]]

\* UPDATE sub_agents SET progress = ? WHERE id = ?
UpdateSubAgentProgress(tbl, id, progress) ==
  [i \in DOMAIN tbl |-> IF i = id THEN [tbl[i] EXCEPT !.progress = progress] ELSE tbl[i]]

\* UPDATE sub_agents SET status = ?, result = ?, progress = 100,
\* finished_at = CURRENT_TIMESTAMP WHERE id = ?
UpdateSubAgent(tbl, id, status, result) ==
  [i \in DOMAIN tbl |->
     IF i = id
     THEN [tbl[i] EXCEPT !.status = status, !.result = result, !.progress = 100,
                         !.finished_at = "CURRENT_TIMESTAMP"]
     ELSE tbl[i]]

\* SELECT ... FROM sub_agents: what ListAll() shows
GetSubAgents == subAgents

\* INSERT OR REPLACE INTO sub_agent_definitions
SaveSubAgentDefinition(tbl, name, personality, tools, model) ==
  (name :> [Name |-> name, Personality |-> personality, Tools |-> tools, Model |-> model]) @@ tbl

\* a lookup that hands back the zero definition instead of nil on ErrNoRows
GetSubAgentDefinitionZero(tbl, name) ==
  IF name \in DOMAIN tbl
  THEN [found |-> TRUE, def |-> tbl[name]]
  ELSE [found |-> TRUE,
        def |-> [Name |-> <<>>, Personality |-> <<>>, Tools |-> <<>>, Model |-> <<>>]]

\* SELECT ... FROM sub_agent_definitions WHERE name = ?: (nil, nil) on ErrNoRows
GetSubAgentDefinition(tbl, name) ==
  IF name \in DOMAIN tbl
  THEN [found |-> TRUE, def |-> tbl[name]]
  ELSE [found |-> FALSE,
        def |-> [Name |-> <<>>, Personality |-> <<>>, Tools |-> <<>>, Model |-> <<>>]]

\* ------------------------------------------------------------------------
\* The sub-agent manager (manager.go)
\* ------------------------------------------------------------------------
NoThread == [kind |-> "none", pc |-> "none", prompt |-> <<>>, images |-> <<>>,
             personality |-> <<>>, model |-> <<>>, tools |-> [nil |-> TRUE, set |-> {}],
             members |-> <<>>, turn |-> 0, transcript |-> <<>>,
             council |-> <<>>, problem |-> <<>>]

NilTools == [nil |-> TRUE, set |-> {}]

\* SpawnNamed, "Filter tools if specified": the map handed to runSubAgent
AllowedTools(toolsField, registry) ==
  IF toolsField # <<>> /\ toolsField # <<"*">>
  THEN LET toolList == Split(toolsField, ",")
       IN [nil |-> FALSE,
           set |-> {TrimSpace(toolList[i], " ") : i \in 1 .. Len(toolList)} \cap registry]
  ELSE [nil |-> FALSE, set |-> registry]

\* the fallback taken for an empty map as well as for nil
InstalledToolsIfEmpty(tools, registry) ==
  IF tools.nil \/ tools.set = {} THEN registry ELSE tools.set

\* runSubAgent: if tools == nil { tools = m.tools }
InstalledTools(tools, registry) == IF tools.nil THEN registry ELSE tools.set

\* m.DefineAgent(name, personality, tools, model)
DefineAgent(name, personality, tools, model) ==
  /\ defs' = SaveSubAgentDefinition(defs, name, personality, tools, model)
  /\ api' = Outcome("DefineAgent", name, 0, NoErr)
  /\ UNCHANGED <<councils, subAgents, messages, agent, run, thr, client, scheduledTasks, sched, now, webhooks, http, compact, call, memories, opt, agentMessages, inbox>>

\* Spawn up to the go statement; id is the identifier uuid.New() yields, and the
\* insert fails on the primary key when a row has it already
Spawn(id, prompt, images) ==
  /\ IF id \in DOMAIN subAgents
     THEN /\ api' = Outcome("Spawn", <<>>, 0, <<"UNIQUE constraint failed: sub_agents.id">>)
          /\ UNCHANGED <<subAgents, thr>>
     ELSE /\ subAgents' = SaveSubAgent(subAgents, id, prompt, "running", <<>>, <<>>)
          /\ thr' = [thr EXCEPT ![id] = [NoThread EXCEPT !.kind = "sub", !.pc = "saved",
                        !.prompt = prompt, !.images = images, !.tools = NilTools]]
          /\ api' = NoCall
  /\ UNCHANGED <<defs, councils, messages, agent, run, client, scheduledTasks, sched, now, webhooks, http, compact, call, memories, opt, agentMessages, inbox>>

\* SpawnNamed up to the go statement
SpawnNamed(id, agentName, prompt, images) ==
  /\ IF ~GetSubAgentDefinition(defs, agentName).found
     THEN /\ api' = Outcome("SpawnNamed", agentName, 0,
                       <<"sub-agent definition for '">> \o agentName \o <<"' not found">>)
          /\ UNCHANGED <<subAgents, thr>>
     ELSE IF id \in DOMAIN subAgents
     THEN /\ api' = Outcome("SpawnNamed", agentName, 0, <<"UNIQUE constraint failed: sub_agents.id">>)
          /\ UNCHANGED <<subAgents, thr>>
     ELSE LET def == GetSubAgentDefinition(defs, agentName).def
          IN /\ subAgents' = SaveSubAgent(subAgents, id, <<"[">> \o agentName \o <<"]: ">> \o prompt,
                                          "running", def.Model, def.Personality)
             /\ thr' = [thr EXCEPT ![id] = [NoThread EXCEPT !.kind = "sub", !.pc = "saved",
                           !.prompt = prompt, !.images = images,
                           !.personality = def.Personality, !.model = def.Model,
                           !.tools = AllowedTools(def.Tools, Registry)]]
             /\ api' = NoCall
  /\ UNCHANGED <<defs, councils, messages, agent, run, client, scheduledTasks, sched, now, webhooks, http, compact, call, memories, opt, agentMessages, inbox>>

\* the go statement of Spawn / SpawnNamed / RunCouncilSession and the return of
\* the identifier
SpawnStart(id) ==
  /\ thr[id].pc = "saved"
  /\ thr' = [thr EXCEPT ![id].pc = "spawned"]
  /\ api' = Outcome("spawned", <<>>, id, NoErr)
  /\ UNCHANGED <<defs, councils, subAgents, messages, agent, run, client, scheduledTasks, sched, now, webhooks, http, compact, call, memories, opt, agentMessages, inbox>>

\* the Agent a background goroutine creates: no store
FreshAgent(tools, personality, model) ==
  [NoAgent EXCEPT !.tools = tools, !.personality = personality, !.model = model]

\* runSubAgent from its start to the call of internalLoop
SubAgentBegin(id) ==
  /\ thr[id].kind = "sub"
  /\ thr[id].pc = "spawned"
  /\ thr' = [thr EXCEPT ![id].pc = "run"]
  /\ agent' = [agent EXCEPT ![id] =
        RunEntered(FreshAgent(InstalledTools(thr[id].tools, Registry),
                              thr[id].personality, thr[id].model),
                   thr[id].prompt, thr[id].images, Len(thr[id].images) > 0)]
  /\ run' = [run EXCEPT ![id] = [IdleRun EXCEPT !.pc = "loop", !.originalModel = client.Model]]
  /\ client' = LoopEntered(client, agent'[id])
  /\ UNCHANGED <<defs, councils, subAgents, messages, scheduledTasks, sched, now, webhooks, http, compact, call, memories, opt, agentMessages, inbox>>
  /\ api' = NoCall

\* a context without a deadline
DeadlineNever(id) ==
  /\ FALSE
  /\ UNCHANGED vars

\* the deadline of the context of a run (10 minutes) or of a council turn
\* (5 minutes) passes
Deadline(id) ==
  /\ thr[id].pc = "run"
  /\ run[id].pc \in {"loop", "llm", "tool"}
  /\ ~run[id].expired
  /\ run' = [run EXCEPT ![id].expired = TRUE]
  /\ UNCHANGED <<defs, councils, subAgents, messages, agent, thr, client, scheduledTasks, sched, now, webhooks, http, compact, call, memories, opt, agentMessages, inbox>>
  /\ api' = NoCall

\* runSubAgent after Run returned: status, result and the final update
\* a run that is reported completed whatever Run returned
RunStatusAlwaysCompleted(err) == "completed"

RunStatus(err) == IF err # NoErr THEN "failed" ELSE "completed"

RunResult(ret, err) == IF err # NoErr THEN <<"Error: ">> \o err ELSE ret

SubAgentEnd(id) ==
  LET status == RunStatus(run[id].err)
      result == RunResult(run[id].ret, run[id].err)
  IN /\ thr[id].kind = "sub"
     /\ thr[id].pc = "run"
     /\ run[id].pc = "ret"
     /\ subAgents' = UpdateSubAgent(subAgents, id, status, result)
     /\ thr' = [thr EXCEPT ![id].pc = "done"]
     /\ UNCHANGED <<defs, councils, messages, agent, run, client, scheduledTasks, sched, now, webhooks, http, compact, call, memories, opt, agentMessages, inbox>>
     /\ api' = NoCall

\* m.UpdateProgress(id, progress)
UpdateProgress(id, progress) ==
  /\ subAgents' = UpdateSubAgentProgress(subAgents, id, progress)
  /\ api' = Outcome("UpdateProgress", <<>>, 0, NoErr)
  /\ UNCHANGED <<defs, councils, messages, agent, run, thr, client, scheduledTasks, sched, now, webhooks, http, compact, call, memories, opt, agentMessages, inbox>>

\* ------------------------------------------------------------------------
\* The council engine (council.go)
\* ------------------------------------------------------------------------
\* strings.Join
RECURSIVE Join(_, _)
Join(parts, sep) ==
  IF parts = <<>> THEN <<>>
  ELSE IF Len(parts) = 1 THEN parts[1]
  ELSE parts[1] \o <<sep>> \o Join(Tail(parts), sep)

\* a resolution that keeps the zero definition for a name that has none
RECURSIVE ResolveMembersKeepAll(_, _)
ResolveMembersKeepAll(memberNames, table) ==
  IF memberNames = <<>> THEN <<>>
  ELSE <<GetSubAgentDefinition(table, TrimSpace(Head(memberNames), " ")).def>>
       \o ResolveMembersKeepAll(Tail(memberNames), table)

\* RunCouncilSession, the loop over memberNames: the definitions that exist
RECURSIVE ResolveMembers(_, _)
ResolveMembers(memberNames, table) ==
  IF memberNames = <<>> THEN <<>>
  ELSE LET got == GetSubAgentDefinition(table, TrimSpace(Head(memberNames), " "))
       IN (IF got.found THEN <<got.def>> ELSE <<>>)
          \o ResolveMembers(Tail(memberNames), table)

\* m.DefineCouncil(name, members)
DefineCouncil(name, members) ==
  /\ councils' = (name :> Join(members, ",")) @@ councils
  /\ api' = Outcome("DefineCouncil", name, 0, NoErr)
  /\ UNCHANGED <<defs, subAgents, messages, agent, run, thr, client, scheduledTasks, sched, now, webhooks, http, compact, call, memories, opt, agentMessages, inbox>>

\* RunCouncilSession up to the go statement
RunCouncilSession(id, councilName, problem) ==
  LET members == ResolveMembers(Split(councils[councilName], ","), defs)
  IN /\ IF councilName \notin DOMAIN councils
        THEN /\ api' = Outcome("RunCouncilSession", councilName, 0,
                          <<"council '">> \o councilName \o <<"' not found">>)
             /\ UNCHANGED <<subAgents, thr>>
        ELSE IF Len(members) = 0
        THEN /\ api' = Outcome("RunCouncilSession", councilName, 0,
                          <<"no valid members found for council '">> \o councilName \o <<"'">>)
             /\ UNCHANGED <<subAgents, thr>>
        ELSE IF id \in DOMAIN subAgents
        THEN /\ api' = Outcome("RunCouncilSession", councilName, 0, <<"UNIQUE constraint failed: sub_agents.id">>)
             /\ UNCHANGED <<subAgents, thr>>
        ELSE /\ subAgents' = SaveSubAgent(subAgents, id,
                                <<"Council '">> \o councilName \o <<"' Session: ", ToString(id)>>,
                                "running", <<>>, <<>>)
             /\ thr' = [thr EXCEPT ![id] = [NoThread EXCEPT !.kind = "council", !.pc = "saved",
                           !.members = members, !.turn = 1, !.council = councilName,
                           !.problem = problem,
                           !.transcript = <<<<"Council Problem: ">> \o problem>>]]
             /\ api' = NoCall
     /\ UNCHANGED <<defs, councils, messages, agent, run, client, scheduledTasks, sched, now, webhooks, http, compact, call, memories, opt, agentMessages, inbox>>

\* executeCouncilSession: progress := (round-1)*100/2 + (100 / (2 * len(members)))
TurnProgress(round, nMembers) == ((round - 1) * 100) \div 2 + (100 \div (2 * nMembers))

\* the turns of the two rounds, counted from 1: round and member of a turn
RoundOf(turn, nMembers) == ((turn - 1) \div nMembers) + 1

\* members taken from the last to the first
MemberOfBackwards(turn, nMembers) == nMembers - ((turn - 1) % nMembers)

MemberOf(turn, nMembers) == ((turn - 1) % nMembers) + 1

MemberPrompt(councilName, problem, transcript) ==
  <<"You are participating in a council meeting called '">> \o councilName
  \o <<"'. The problem we are solving is: ">> \o problem
  \o <<"Current Discussion Transcript:">> \o Join(transcript, "\n\n")
  \o <<"Provide your thoughts or solutions based on your unique personality and expertise.">>

\* one member turn, from the progress update to the call of internalLoop
CouncilTurn(id) ==
  LET n == Len(thr[id].members)
      member == thr[id].members[MemberOf(thr[id].turn, n)]
  IN /\ thr[id].kind = "council"
     /\ thr[id].pc \in {"spawned", "turn"}
     /\ thr[id].turn <= 2 * n
     /\ subAgents' = UpdateSubAgentProgress(subAgents, id, TurnProgress(RoundOf(thr[id].turn, n), n))
     /\ agent' = [agent EXCEPT ![id] =
           RunEntered(FreshAgent(Registry, member.Personality, member.Model),
                      MemberPrompt(thr[id].council, thr[id].problem, thr[id].transcript),
                      <<>>, FALSE)]
     /\ run' = [run EXCEPT ![id] = [IdleRun EXCEPT !.pc = "loop", !.originalModel = client.Model]]
     /\ thr' = [thr EXCEPT ![id].pc = "run"]
     /\ client' = LoopEntered(client, agent'[id])
     /\ UNCHANGED <<defs, councils, messages, scheduledTasks, sched, now, webhooks, http, compact, call, memories, opt, agentMessages, inbox>>
     /\ api' = NoCall

\* a failed member turn that ends the two loops
CouncilTurnEndAbort(id) ==
  LET n == Len(thr[id].members)
      member == thr[id].members[MemberOf(thr[id].turn, n)]
      contribution == <<"[">> \o member.Name \o <<"]: ">> \o run[id].ret
  IN /\ thr[id].kind = "council"
     /\ thr[id].pc = "run"
     /\ run[id].pc = "ret"
     /\ thr' = [thr EXCEPT ![id].pc = "turn",
                           ![id].turn = IF run[id].err # NoErr THEN 2 * n + 1 ELSE @ + 1,
                           ![id].transcript = IF run[id].err # NoErr THEN @
                                              ELSE Append(@, contribution)]
     /\ UNCHANGED <<defs, councils, subAgents, messages, agent, run, client, scheduledTasks, sched, now, webhooks, http, compact, call, memories, opt, agentMessages, inbox>>
     /\ api' = NoCall

\* the member's Run returned: an error is logged and skipped, a response is
\* appended to the transcript
CouncilTurnEnd(id) ==
  LET n == Len(thr[id].members)
      member == thr[id].members[MemberOf(thr[id].turn, n)]
      contribution == <<"[">> \o member.Name \o <<"]: ">> \o run[id].ret
  IN /\ thr[id].kind = "council"
     /\ thr[id].pc = "run"
     /\ run[id].pc = "ret"
     /\ thr' = [thr EXCEPT ![id].pc = "turn", ![id].turn = @ + 1,
                           ![id].transcript = IF run[id].err # NoErr THEN @
                                              ELSE Append(@, contribution)]
     /\ UNCHANGED <<defs, councils, subAgents, messages, agent, run, client, scheduledTasks, sched, now, webhooks, http, compact, call, memories, opt, agentMessages, inbox>>
     /\ api' = NoCall

\* after the last turn: the session is completed with the joined transcript
CouncilEnd(id) ==
  /\ thr[id].kind = "council"
  /\ thr[id].pc = "turn"
  /\ thr[id].turn > 2 * Len(thr[id].members)
  /\ subAgents' = UpdateSubAgent(subAgents, id, "completed", Join(thr[id].transcript, "\n\n---\n\n"))
  /\ thr' = [thr EXCEPT ![id].pc = "done"]
  /\ UNCHANGED <<defs, councils, messages, agent, run, client, scheduledTasks, sched, now, webhooks, http, compact, call, memories, opt, agentMessages, inbox>>
  /\ api' = NoCall

\* ------------------------------------------------------------------------
\* The scheduled_tasks table (db.go) and the Scheduler
\* ------------------------------------------------------------------------
\* INSERT INTO scheduled_tasks (task_type, schedule, prompt, target_type,
\* target_name): id INTEGER PRIMARY KEY AUTOINCREMENT never reuses an id
SaveScheduledTask(tbl, taskType, schedule, prompt, targetType, targetName) ==
  [rows |-> ((tbl.seq + 1) :> [ID |-> tbl.seq + 1, Type |-> taskType, Schedule |-> schedule,
                               Prompt |-> prompt, TargetType |-> targetType,
                               TargetName |-> targetName, LastRun |-> Null]) @@ tbl.rows,
   seq |-> tbl.seq + 1]

\* SELECT ... FROM scheduled_tasks
LoadScheduledTasks(tbl) == tbl.rows

\* UPDATE scheduled_tasks SET last_run = CURRENT_TIMESTAMP WHERE id = ?
UpdateTaskLastRun(tbl, id) ==
  [rows |-> [i \in DOMAIN tbl.rows |->
               IF i = id THEN [tbl.rows[i] EXCEPT !.LastRun = "CURRENT_TIMESTAMP"]
               ELSE tbl.rows[i]],
   seq |-> tbl.seq]

\* DELETE FROM scheduled_tasks WHERE id = ?
DeleteTask(tbl, id) ==
  [rows |-> [i \in DOMAIN tbl.rows \ {id} |-> tbl.rows[i]], seq |-> tbl.seq]

\* time.Parse(time.RFC3339, task.Schedule): the instant on the model's clock
ParseRFC3339(schedule) ==
  CASE schedule = <<"2000-01-01T00:00:00Z">> -> [ok |-> TRUE, instant |-> 0]
    [] schedule = <<"2100-01-01T00:00:00Z">> -> [ok |-> TRUE, instant |-> 2]
    [] OTHER -> [ok |-> FALSE, instant |-> 0]

\* cron.AddFunc accepts the expression
ValidCron(schedule) == schedule = <<"0 * * * * *">>

\* what the Scheduler holds for the tasks it has loaded: the copy of the row its
\* closures captured, the calendar handlers (the instant each was registered
\* at) and the armed timers, the number of handlers the calendar engine has run
\* (fires) at the latest instant it ran one (firedAt), and the executeTask
\* goroutines by position: started (waiting), inside the main agent's Run
\* (running), past a dispatch that returned nil (returned), ended on a dispatch
\* error (failed), ended after the update of the row (finished)
NoJob == [task |-> Null, handlers |-> <<>>, firedAt |-> 0, fires |-> 0, timers |-> 0,
          waiting |-> 0, running |-> 0, returned |-> 0, failed |-> 0, finished |-> 0]

JobOf(jobs, task) == IF task.ID \in DOMAIN jobs THEN jobs[task.ID] ELSE [NoJob EXCEPT !.task = task]

\* a one-shot task is armed without a look at the error of time.Parse
ScheduleUnchecked(jobs, task, t) ==
  LET j == JobOf(jobs, task)
      parsed == ParseRFC3339(task.Schedule)
  IN IF task.Type = "recurring"
     THEN IF ValidCron(task.Schedule)
          THEN (task.ID :> [j EXCEPT !.handlers = Append(@, t)]) @@ jobs
          ELSE jobs
     ELSE IF parsed.instant - t <= 0
     THEN (task.ID :> [j EXCEPT !.waiting = @ + 1]) @@ jobs
     ELSE (task.ID :> [j EXCEPT !.timers = @ + 1]) @@ jobs

\* Scheduler.schedule at time t
Schedule(jobs, task, t) ==
  LET j == JobOf(jobs, task)
      parsed == ParseRFC3339(task.Schedule)
  IN IF task.Type = "recurring"
     THEN IF ValidCron(task.Schedule)
          THEN (task.ID :> [j EXCEPT !.handlers = Append(@, t)]) @@ jobs
          ELSE jobs
     ELSE IF task.Type = "one-shot"
     THEN IF ~parsed.ok THEN jobs
          ELSE IF parsed.instant - t <= 0
          THEN (task.ID :> [j EXCEPT !.waiting = @ + 1]) @@ jobs
          ELSE (task.ID :> [j EXCEPT !.timers = @ + 1]) @@ jobs
     ELSE jobs

\* Scheduler.loadAndScheduleTasks: every row of the table, in the order of ids
RECURSIVE ScheduleAll(_, _, _, _)
ScheduleAll(jobs, rows, ids, t) ==
  IF ids = {} THEN jobs
  ELSE LET i == CHOOSE k \in ids : \A m \in ids : k <= m
       IN ScheduleAll(Schedule(jobs, rows[i], t), rows, ids \ {i}, t)

loadAndScheduleTasks(jobs, tbl, t) ==
  ScheduleAll(jobs, LoadScheduledTasks(tbl), DOMAIN LoadScheduledTasks(tbl), t)

\* Scheduler.Start
Start ==
  /\ ~sched.started
  /\ sched' = [started |-> TRUE, jobs |-> loadAndScheduleTasks(sched.jobs, scheduledTasks, now)]
  /\ UNCHANGED <<defs, councils, subAgents, messages, agent, run, thr, client, scheduledTasks, now, webhooks, http, compact, call, memories, opt, agentMessages, inbox>>
  /\ api' = NoCall

\* Scheduler.AddTask: the row is saved, then all rows are loaded and scheduled
AddTask(taskType, schedule, prompt, targetType, targetName) ==
  /\ sched.started
  /\ scheduledTasks' = SaveScheduledTask(scheduledTasks, taskType, schedule, prompt,
                                         targetType, targetName)
  /\ sched' = [sched EXCEPT !.jobs = loadAndScheduleTasks(sched.jobs, scheduledTasks', now)]
  /\ UNCHANGED <<defs, councils, subAgents, messages, agent, run, thr, client, now, webhooks, http, compact, call, memories, opt, agentMessages, inbox>>
  /\ api' = NoCall

\* the handlers of the task tid the calendar engine runs at the instant t: the
\* expression matches every instant of the clock, and an entry runs at the
\* matching instants after its registration
DueHandlers(tid, t) ==
  Cardinality({i \in 1 .. Len(sched.jobs[tid].handlers) : sched.jobs[tid].handlers[i] < t})

\* the handlers of the task tid the calendar engine has run at the instant t
FiresAt(tid, t) == IF sched.jobs[tid].firedAt = t THEN sched.jobs[tid].fires ELSE 0

\* the calendar engine runs one of the handlers cron.AddFunc registered for the
\* task: the closure starts executeTask with the row it captured
CronFire(tid) ==
  /\ tid \in DOMAIN sched.jobs
  /\ FiresAt(tid, now) < DueHandlers(tid, now)
  /\ sched' = [sched EXCEPT !.jobs[tid].firedAt = now,
                            !.jobs[tid].fires = FiresAt(tid, now) + 1,
                            !.jobs[tid].waiting = @ + 1]
  /\ UNCHANGED <<defs, councils, subAgents, messages, agent, run, thr, client, scheduledTasks, now, webhooks, http, compact, call, memories, opt, agentMessages, inbox>>
  /\ api' = NoCall

\* the timer time.AfterFunc armed expires and starts executeTask
TimerFires(tid) ==
  /\ tid \in DOMAIN sched.jobs
  /\ sched.jobs[tid].timers > 0
  /\ ParseRFC3339(sched.jobs[tid].task.Schedule).instant <= now
  /\ sched' = [sched EXCEPT !.jobs[tid].timers = @ - 1, !.jobs[tid].waiting = @ + 1]
  /\ UNCHANGED <<defs, councils, subAgents, messages, agent, run, thr, client, scheduledTasks, now, webhooks, http, compact, call, memories, opt, agentMessages, inbox>>
  /\ api' = NoCall

\* a switch that sends every task to the main agent
SinkOfMainOnly(targetType) == "main"

\* executeTask, switch task.TargetType
SinkOf(targetType) ==
  CASE targetType = "subagent" -> "subagent"
    [] targetType = "council" -> "council"
    [] OTHER -> "main"

\* executeTask up to the test of the dispatch's error; the sink is SpawnNamed
\* (target "subagent") or RunCouncilSession (target "council"), called with the
\* identifier id their uuid.New() yields
ExecuteDispatch(tid, id) ==
  LET task == sched.jobs[tid].task
      got == GetSubAgentDefinition(defs, task.TargetName)
      members == ResolveMembers(Split(councils[task.TargetName], ","), defs)
      failed == [sched EXCEPT !.jobs[tid].waiting = @ - 1, !.jobs[tid].failed = @ + 1]
      returned == [sched EXCEPT !.jobs[tid].waiting = @ - 1, !.jobs[tid].returned = @ + 1]
  IN /\ tid \in DOMAIN sched.jobs
     /\ sched.jobs[tid].waiting > 0
     /\ SinkOf(task.TargetType) \in {"subagent", "council"}
     /\ IF SinkOf(task.TargetType) = "subagent"
        THEN IF ~got.found \/ id \in DOMAIN subAgents
             THEN /\ sched' = failed
                  /\ UNCHANGED <<subAgents, thr>>
                  /\ api' = Outcome("SpawnNamed", task.TargetName, 0, <<"error">>)
             ELSE /\ subAgents' = SaveSubAgent(subAgents, id,
                                     <<"[">> \o task.TargetName \o <<"]: ">> \o task.Prompt,
                                     "running", got.def.Model, got.def.Personality)
                  /\ thr' = [thr EXCEPT ![id] = [NoThread EXCEPT !.kind = "sub", !.pc = "spawned",
                                !.prompt = task.Prompt,
                                !.personality = got.def.Personality, !.model = got.def.Model,
                                !.tools = AllowedTools(got.def.Tools, Registry)]]
                  /\ sched' = returned
                  /\ api' = Outcome("SpawnNamed", task.TargetName, id, NoErr)
        ELSE IF task.TargetName \notin DOMAIN councils \/ Len(members) = 0
                \/ id \in DOMAIN subAgents
             THEN /\ sched' = failed
                  /\ UNCHANGED <<subAgents, thr>>
                  /\ api' = Outcome("RunCouncilSession", task.TargetName, 0, <<"error">>)
             ELSE /\ subAgents' = SaveSubAgent(subAgents, id,
                                     <<"Council '">> \o task.TargetName
                                        \o <<"' Session: ", ToString(id)>>,
                                     "running", <<>>, <<>>)
                  /\ thr' = [thr EXCEPT ![id] = [NoThread EXCEPT !.kind = "council",
                                !.pc = "spawned", !.members = members, !.turn = 1,
                                !.council = task.TargetName, !.problem = task.Prompt,
                                !.transcript = <<<<"Council Problem: ">> \o task.Prompt>>]]
                  /\ sched' = returned
                  /\ api' = Outcome("RunCouncilSession", task.TargetName, id, NoErr)
     /\ UNCHANGED <<defs, councils, messages, agent, run, client, scheduledTasks, now, webhooks, http, compact, call, memories, opt, agentMessages, inbox>>

\* executeTask, default branch of the switch: s.agent.Run is entered on the
\* frame g with the prompt behind "[Scheduled Task]: "
ExecuteDispatchMain(tid, g) ==
  LET task == sched.jobs[tid].task
      userInput == <<"[Scheduled Task]: ">> \o task.Prompt
  IN /\ tid \in DOMAIN sched.jobs
     /\ sched.jobs[tid].waiting > 0
     /\ SinkOf(task.TargetType) = "main"
     /\ g \in MainProcs
     /\ run[g].pc = "idle"
     /\ sched' = [sched EXCEPT !.jobs[tid].waiting = @ - 1, !.jobs[tid].running = @ + 1]
     /\ run' = [run EXCEPT ![g].pc = "loop", ![g].originalModel = client.Model,
                           ![g].caller = tid]
     /\ agent' = [agent EXCEPT ![MainAgent] = RunEntered(@, userInput, <<>>, FALSE)]
     /\ messages' = RunEnteredLog(agent[MainAgent], messages, userInput, FALSE)
     /\ client' = LoopEntered(client, agent[MainAgent])
     /\ UNCHANGED <<defs, councils, subAgents, thr, scheduledTasks, now, webhooks, http, compact, call, memories, opt, agentMessages, inbox>>
     /\ api' = NoCall

\* s.agent.Run returns to executeTask, which tests its error
ExecuteMainReturn(tid, g) ==
  /\ tid \in DOMAIN sched.jobs
  /\ g \in MainProcs
  /\ run[g].pc = "ret"
  /\ run[g].caller = tid
  /\ sched' = IF run[g].err # NoErr
              THEN [sched EXCEPT !.jobs[tid].running = @ - 1, !.jobs[tid].failed = @ + 1]
              ELSE [sched EXCEPT !.jobs[tid].running = @ - 1, !.jobs[tid].returned = @ + 1]
  /\ run' = [run EXCEPT ![g] = IdleRun]
  /\ UNCHANGED <<defs, councils, subAgents, messages, agent, thr, client, scheduledTasks, now, webhooks, http, compact, call, memories, opt, agentMessages, inbox>>
  /\ api' = NoCall

\* the row is stamped and deleted when executeTask starts, before the dispatch
ExecuteFinishBeforeDispatch(tid) ==
  LET task == sched.jobs[tid].task
      stamped == UpdateTaskLastRun(scheduledTasks, task.ID)
  IN /\ tid \in DOMAIN sched.jobs
     /\ sched.jobs[tid].waiting + sched.jobs[tid].returned > 0
     /\ sched' = IF sched.jobs[tid].waiting > 0
                 THEN [sched EXCEPT !.jobs[tid].waiting = @ - 1, !.jobs[tid].finished = @ + 1]
                 ELSE [sched EXCEPT !.jobs[tid].returned = @ - 1, !.jobs[tid].finished = @ + 1]
     /\ scheduledTasks' = IF task.Type = "one-shot" THEN DeleteTask(stamped, task.ID) ELSE stamped
     /\ UNCHANGED <<defs, councils, subAgents, messages, agent, run, thr, client, now, webhooks, http, compact, call, memories, opt, agentMessages, inbox>>
     /\ api' = NoCall

\* executeTask after a dispatch that returned nil: last_run is stamped and the
\* row of a one-shot task deleted
ExecuteFinish(tid) ==
  LET task == sched.jobs[tid].task
      stamped == UpdateTaskLastRun(scheduledTasks, task.ID)
  IN /\ tid \in DOMAIN sched.jobs
     /\ sched.jobs[tid].returned > 0
     /\ sched' = [sched EXCEPT !.jobs[tid].returned = @ - 1, !.jobs[tid].finished = @ + 1]
     /\ scheduledTasks' = IF task.Type = "one-shot" THEN DeleteTask(stamped, task.ID) ELSE stamped
     /\ UNCHANGED <<defs, councils, subAgents, messages, agent, run, thr, client, now, webhooks, http, compact, call, memories, opt, agentMessages, inbox>>
     /\ api' = NoCall

\* strconv.Atoi on the id of a request
Atoi(s) ==
  IF \E k \in 0 .. 9 : s = <<ToString(k)>>
  THEN [ok |-> TRUE, value |-> CHOOSE k \in 0 .. 9 : s = <<ToString(k)>>]
  ELSE [ok |-> FALSE, value |-> 0]

\* the schedule_task tool, action add: the type and a one-shot's timestamp are
\* validated and the row is saved; the Scheduler is not called
ScheduleToolAdd(type, schedule, prompt, targetType, targetName) ==
  /\ IF type # "one-shot" /\ type # "recurring"
     THEN /\ api' = Outcome("schedule_task add", <<type>> \o schedule, 0,
                            <<"invalid task type: ", type>>)
          /\ UNCHANGED scheduledTasks
     ELSE IF type = "one-shot" /\ ~ParseRFC3339(schedule).ok
     THEN /\ api' = Outcome("schedule_task add", <<type>> \o schedule, 0,
                            <<"invalid schedule format for one-shot (RFC3339 expected): ">>)
          /\ UNCHANGED scheduledTasks
     ELSE /\ scheduledTasks' = SaveScheduledTask(scheduledTasks, type, schedule, prompt,
                                  IF targetType = "" THEN "main" ELSE targetType, targetName)
          /\ api' = Outcome("schedule_task add", <<type>> \o schedule, scheduledTasks.seq + 1, NoErr)
  /\ UNCHANGED <<defs, councils, subAgents, messages, agent, run, thr, client, sched, now, webhooks, http, compact, call, memories, opt, agentMessages, inbox>>

\* the schedule_task tool, action delete: the row is deleted from the store;
\* the Scheduler is not called
ScheduleToolDelete(id) ==
  /\ IF ~Atoi(id).ok
     THEN /\ api' = Outcome("schedule_task delete", id, 0, <<"invalid ID: ">> \o id)
          /\ UNCHANGED scheduledTasks
     ELSE /\ scheduledTasks' = DeleteTask(scheduledTasks, Atoi(id).value)
          /\ api' = Outcome("schedule_task delete", id, Atoi(id).value, NoErr)
  /\ UNCHANGED <<defs, councils, subAgents, messages, agent, run, thr, client, sched, now, webhooks, http, compact, call, memories, opt, agentMessages, inbox>>

\* time passes
Tick(maxTime) ==
  /\ now < maxTime
  /\ now' = now + 1
  /\ UNCHANGED <<defs, councils, subAgents, messages, agent, run, thr, client, scheduledTasks, sched, webhooks, http, compact, call, memories, opt, agentMessages, inbox>>
  /\ api' = NoCall

\* ------------------------------------------------------------------------
\* The webhooks table (memory.go) and the HTTP server (server.go)
\* ------------------------------------------------------------------------
\* INSERT OR REPLACE INTO webhooks (id, name, target_agent, prompt_template)
SaveWebhook(tbl, id, targetAgent, promptTemplate) ==
  (id :> [ID |-> id, TargetAgent |-> targetAgent, PromptTemplate |-> promptTemplate]) @@ tbl

\* SELECT ... FROM webhooks WHERE id = ?: nil for sql.ErrNoRows
GetWebhook(tbl, id) ==
  IF id \in DOMAIN tbl THEN [found |-> TRUE, hook |-> tbl[id]]
  ELSE [found |-> FALSE, hook |-> Null]

\* strings.Replace(s, old, new, 1)
RECURSIVE ReplaceFirst(_, _, _)
ReplaceFirst(s, old, new) ==
  IF s = <<>> THEN <<>>
  ELSE IF Head(s) = old THEN new \o Tail(s)
  ELSE <<Head(s)>> \o ReplaceFirst(Tail(s), old, new)

\* strings.ReplaceAll(s, old, new): the occurrences of old in s, from the left;
\* what was put in is not scanned again
RECURSIVE ReplaceAll(_, _, _)
ReplaceAll(s, old, new) ==
  IF s = <<>> THEN <<>>
  ELSE (IF Head(s) = old THEN new ELSE <<Head(s)>>) \o ReplaceAll(Tail(s), old, new)

\* a request the server has taken: the status it answered with, and the
\* goroutine the handler started (pc "go": started, "run": inside Run on the
\* main agent, "done": over, "none": never started)
NoRequest == [kind |-> "none", id |-> <<>>, body |-> <<>>, images |-> <<>>, status |-> 0,
              pc |-> "none", prompt |-> <<>>, target |-> <<>>, seen |-> <<>>]

\* the tool "webhook", action create: the webhook is saved
CreateWebhook(id, targetAgent, promptTemplate) ==
  /\ webhooks' = SaveWebhook(webhooks, id,
                             IF targetAgent = <<>> THEN <<"main">> ELSE targetAgent,
                             promptTemplate)
  /\ UNCHANGED <<defs, councils, subAgents, messages, agent, run, thr, client, scheduledTasks, sched, now, http, compact, call, memories, opt, agentMessages, inbox>>
  /\ api' = NoCall

\* Server.handleWebhook for POST /webhooks/{id} with the body payload, from the
\* lookup to the response: 400 without an id, 404 for an id that is not stored,
\* else the goroutine is started and "Webhook accepted" written with 200
handleWebhook(id, payload) ==
  LET got == GetWebhook(webhooks, id)
      req == [NoRequest EXCEPT !.kind = "webhook", !.id = id, !.body = payload]
  IN /\ http' = Append(http,
          IF id = <<>> THEN [req EXCEPT !.status = 400]
          ELSE IF ~got.found THEN [req EXCEPT !.status = 404]
          ELSE [req EXCEPT !.status = 200, !.pc = "go",
                           !.prompt = ReplaceAll(got.hook.PromptTemplate, "{{payload}}", payload),
                           !.target = got.hook.TargetAgent])
     /\ UNCHANGED <<defs, councils, subAgents, messages, agent, run, thr, client, scheduledTasks, sched, now, webhooks, compact, call, memories, opt, agentMessages, inbox>>
     /\ api' = NoCall

\* the goroutine of handleWebhook for a target other than "main":
\* s.SubManager.SpawnNamed(ctx, hook.TargetAgent, prompt, nil), whose results
\* are dropped; id is the identifier its uuid.New() yields
WebhookDispatch(i, id) ==
  LET req == http[i]
      got == GetSubAgentDefinition(defs, req.target)
  IN /\ i \in 1 .. Len(http)
     /\ req.kind = "webhook"
     /\ req.pc = "go"
     /\ req.target # <<"main">>
     /\ http' = [http EXCEPT ![i].pc = "done"]
     /\ IF ~got.found \/ id \in DOMAIN subAgents
        THEN /\ UNCHANGED <<subAgents, thr>>
             /\ api' = Outcome("SpawnNamed", req.target, 0, <<"error">>)
        ELSE /\ subAgents' = SaveSubAgent(subAgents, id,
                                <<"[">> \o req.target \o <<"]: ">> \o req.prompt,
                                "running", got.def.Model, got.def.Personality)
             /\ thr' = [thr EXCEPT ![id] = [NoThread EXCEPT !.kind = "sub", !.pc = "spawned",
                           !.prompt = req.prompt,
                           !.personality = got.def.Personality, !.model = got.def.Model,
                           !.tools = AllowedTools(got.def.Tools, Registry)]]
             /\ api' = Outcome("SpawnNamed", req.target, id, NoErr)
     /\ UNCHANGED <<defs, councils, messages, agent, run, client, scheduledTasks, sched, now, webhooks, compact, call, memories, opt, agentMessages, inbox>>

\* the goroutine of handleWebhook for the target "main": s.Agent.Run(ctx, prompt)
\* is entered on the frame g
WebhookDispatchMain(i, g) ==
  LET req == http[i]
  IN /\ i \in 1 .. Len(http)
     /\ req.kind = "webhook"
     /\ req.pc = "go"
     /\ req.target = <<"main">>
     /\ g \in MainProcs
     /\ run[g].pc = "idle"
     /\ http' = [http EXCEPT ![i].pc = "run"]
     /\ run' = [run EXCEPT ![g].pc = "loop", ![g].originalModel = client.Model,
                           ![g].caller = 0 - i]
     /\ agent' = [agent EXCEPT ![MainAgent] = RunEntered(@, req.prompt, <<>>, FALSE)]
     /\ messages' = RunEnteredLog(agent[MainAgent], messages, req.prompt, FALSE)
     /\ client' = LoopEntered(client, agent[MainAgent])
     /\ UNCHANGED <<defs, councils, subAgents, thr, scheduledTasks, sched, now, webhooks, compact, call, memories, opt, agentMessages, inbox>>
     /\ api' = NoCall

\* s.Agent.Run returns to the goroutine of handleWebhook, which ends
WebhookMainReturn(i, g) ==
  /\ i \in 1 .. Len(http)
  /\ g \in MainProcs
  /\ run[g].pc = "ret"
  /\ run[g].caller = 0 - i
  /\ http' = [http EXCEPT ![i].pc = "done"]
  /\ run' = [run EXCEPT ![g] = IdleRun]
  /\ UNCHANGED <<defs, councils, subAgents, messages, agent, thr, client, scheduledTasks, sched, now, webhooks, compact, call, memories, opt, agentMessages, inbox>>
  /\ api' = NoCall

\* Server.handleChat for a text "/toolName ...": a tool the main agent has is
\* executed at once, after SetLastUserImages when the request carries images;
\* seen is what GetLastUserImages returns to the tool
handleChatTool(toolName, images) ==
  LET req == [NoRequest EXCEPT !.kind = "tool", !.target = toolName, !.images = images,
                               !.status = 200]
      found == toolName \in agent[MainAgent].tools
      a == IF found /\ Len(images) > 0
           THEN [agent[MainAgent] EXCEPT !.lastUserImages = images]
           ELSE agent[MainAgent]
  IN /\ agent' = [agent EXCEPT ![MainAgent] = a]
     /\ http' = Append(http, IF found THEN [req EXCEPT !.pc = "done", !.seen = a.lastUserImages]
                             ELSE req)
     /\ UNCHANGED <<defs, councils, subAgents, messages, run, thr, client, scheduledTasks, sched, now, webhooks, compact, call, memories, opt, agentMessages, inbox>>
     /\ api' = NoCall

\* ------------------------------------------------------------------------
\* The messages table (db.go) and the compact tool (tools/context.go)
\* ------------------------------------------------------------------------
\* the number of messages Compact fetches, and the least it works on
CompactChunk == 10
CompactMin == 5

\* SELECT ... FROM messages ORDER BY timestamp ASC LIMIT ?: the rows and their
\* ids. The log keeps its rows in the order of their insertion, which is the
\* order of their timestamps; a row's place among the rows in the log stands
\* for its id, which holds as long as no other call deletes rows in between
GetOldestMessages(log, limit) ==
  LET k == IF Len(log) > limit THEN limit ELSE Len(log)
  IN [rows |-> SubSeq(log, 1, k), ids |-> 1 .. k]

\* DELETE FROM messages WHERE id IN (...)
DeleteMessages(log, ids) ==
  LET keep == {i \in 1 .. Len(log) : i \notin ids}
  IN [j \in 1 .. Cardinality(keep) |->
        log[CHOOSE i \in keep : Cardinality({m \in keep : m <= i}) = j]]

\* the transcript Compact formats: "role: content\n" for every message
RECURSIVE Transcript(_)
Transcript(msgs) ==
  IF msgs = <<>> THEN <<>>
  ELSE <<msgs[1].role, ": ">> \o msgs[1].content \o <<"\n">> \o Transcript(Tail(msgs))

\* a call of the compact tool: where it is, the messages it fetched and their
\* ids, the prompt it sent, the summary it got, and what it returned
NoCompact == [pc |-> "idle", msgs |-> <<>>, ids |-> {}, prompt |-> <<>>, summary |-> <<>>,
              ret |-> <<>>, err |-> NoErr]

\* CompactTool.Execute up to the call of GenerateResponse
CompactBegin ==
  LET got == GetOldestMessages(messages, CompactChunk)
  IN /\ compact.pc = "idle"
     /\ compact' = IF Len(got.rows) < CompactMin
                   THEN [NoCompact EXCEPT !.ret = <<"History is too short to compact.">>]
                   ELSE [NoCompact EXCEPT !.pc = "llm", !.msgs = got.rows, !.ids = got.ids,
                           !.prompt = <<"Summarize the following conversation segment concisely, preserving key facts and context:\n\n">>
                                         \o Transcript(got.rows)]
     /\ UNCHANGED <<defs, councils, subAgents, messages, agent, run, thr, client, scheduledTasks, sched, now, webhooks, http, call, memories, opt, agentMessages, inbox>>
     /\ api' = NoCall

\* the fetched messages are deleted before the summary is asked for
CompactFailedAfterDelete(e) ==
  /\ compact.pc = "llm"
  /\ messages' = DeleteMessages(messages, compact.ids)
  /\ compact' = [compact EXCEPT !.pc = "idle", !.err = <<"summarization failed: ">> \o e]
  /\ UNCHANGED <<defs, councils, subAgents, agent, run, thr, client, scheduledTasks, sched, now, webhooks, http, call, memories, opt, agentMessages, inbox>>
  /\ api' = NoCall

\* GenerateResponse fails: Execute returns the error and the log is as it was
CompactFailed(e) ==
  /\ compact.pc = "llm"
  /\ compact' = [compact EXCEPT !.pc = "idle", !.err = <<"summarization failed: ">> \o e]
  /\ UNCHANGED <<defs, councils, subAgents, messages, agent, run, thr, client, scheduledTasks, sched, now, webhooks, http, call, memories, opt, agentMessages, inbox>>
  /\ api' = NoCall

\* GenerateResponse returns the summary, and the fetched messages are deleted
CompactDelete(summary) ==
  /\ compact.pc = "llm"
  /\ messages' = DeleteMessages(messages, compact.ids)
  /\ compact' = [compact EXCEPT !.pc = "deleted", !.summary = summary]
  /\ UNCHANGED <<defs, councils, subAgents, agent, run, thr, client, scheduledTasks, sched, now, webhooks, http, call, memories, opt, agentMessages, inbox>>
  /\ api' = NoCall

\* the summary is saved as a system message, and Execute returns
CompactInsert ==
  /\ compact.pc = "deleted"
  /\ messages' = SaveMessage(messages, "system",
                             <<"Summary of previous conversation: ">> \o compact.summary)
  /\ compact' = [compact EXCEPT !.pc = "idle",
                     !.ret = <<"Compacted ", ToString(Len(compact.msgs)), " messages into summary: ">>
                                \o compact.summary]
  /\ UNCHANGED <<defs, councils, subAgents, agent, run, thr, client, scheduledTasks, sched, now, webhooks, http, call, memories, opt, agentMessages, inbox>>
  /\ api' = NoCall

\* internalLoop calls tool.Execute on the compact tool, which holds the store
\* whatever agent runs it: Execute up to the call of GenerateResponse, or the
\* whole call when the history is too short
ExecuteCompact(g) ==
  LET o == IF g \in Ids THEN g ELSE MainAgent
      got == GetOldestMessages(messages, CompactChunk)
  IN /\ run[g].pc = "tool"
     /\ run[g].tool = <<"compact">>
     /\ compact.pc = "idle"
     /\ IF Len(got.rows) < CompactMin
        THEN /\ compact' = [NoCompact EXCEPT !.ret = <<"History is too short to compact.">>]
             /\ run' = [run EXCEPT ![g].pc = "loop"]
             /\ agent' = [agent EXCEPT ![o].history =
                   Append(@, Msg("assistant",
                                 <<"Observation: ", "History is too short to compact.">>, <<>>))]
        ELSE /\ compact' = [NoCompact EXCEPT !.pc = "llm", !.msgs = got.rows, !.ids = got.ids,
                   !.prompt = <<"Summarize the following conversation segment concisely, preserving key facts and context:\n\n">>
                                 \o Transcript(got.rows)]
             /\ run' = [run EXCEPT ![g].pc = "compact"]
             /\ UNCHANGED agent
     /\ UNCHANGED <<defs, councils, subAgents, messages, thr, client, scheduledTasks, sched, now, webhooks, http, call, memories, opt, agentMessages, inbox>>
     /\ api' = NoCall

\* Execute returned to the loop that called it: the observation is appended to
\* the in-memory history
CompactReturn(g) ==
  LET o == IF g \in Ids THEN g ELSE MainAgent
      result == IF compact.err # NoErr THEN <<"Tool error: ">> \o compact.err ELSE compact.ret
  IN /\ run[g].pc = "compact"
     /\ compact.pc = "idle"
     /\ run' = [run EXCEPT ![g].pc = "loop"]
     /\ agent' = [agent EXCEPT ![o].history =
           Append(@, Msg("assistant", <<"Observation: ">> \o result, <<>>))]
     /\ UNCHANGED <<defs, councils, subAgents, messages, thr, client, scheduledTasks, sched, now, webhooks, http, compact, call, memories, opt, agentMessages, inbox>>
     /\ api' = NoCall

EmptyTable == [k \in {} |-> Null]

\* ------------------------------------------------------------------------
\* The LLM bridge: one call of OllamaClient.GenerateResponse (llm client)
\* ------------------------------------------------------------------------
\* maxRetries := 2
maxRetries == 2

\* strings.Contains(err.Error(), sub)
Contains(s, sub) == \E i \in 1 .. Len(s) : s[i] = sub

\* what one attempt comes to: a transport error of c.HTTP.Do, a status other
\* than 200, a body that does not decode, or a decoded response
TransportFailures == {<<"unexpected ", "EOF">>, <<"read tcp: i/o ", "timeout">>,
                      <<"read: ", "connection reset by peer">>, <<"context canceled">>}
StatusFailures == {<<"unexpected status code ", "500">>, <<"unexpected status code ", "404">>}
DecodeFailure == <<"failed to decode response: ">>

\* a frame of GenerateResponse: the loop index i, the attempts made, lastErr,
\* the seconds of each time.Sleep, and what it returned
IdleCall == [pc |-> "idle", i |-> 0, attempts |-> 0, lastErr |-> NoErr, slept |-> <<>>,
             done |-> 0, ret |-> <<>>, err |-> NoErr]

\* GenerateResponse is called: the request body is built and the loop entered
GenerateBegin ==
  /\ call.pc \in {"idle", "returned"}
  /\ call' = [IdleCall EXCEPT !.pc = "do", !.done = call.done]
  /\ UNCHANGED <<defs, councils, subAgents, messages, agent, run, thr, client, scheduledTasks, sched, now, webhooks, http, compact, memories, opt, agentMessages, inbox>>
  /\ api' = NoCall

\* the loop's continue: i++ and the test i <= maxRetries
Continue(c, e) ==
  IF c.i + 1 <= maxRetries
  THEN [c EXCEPT !.pc = "sleep", !.i = @ + 1, !.attempts = @ + 1, !.lastErr = e]
  ELSE [c EXCEPT !.pc = "returned", !.i = @ + 1, !.attempts = @ + 1, !.lastErr = e,
                 !.done = @ + 1,
                 !.err = <<"failed after ", ToString(maxRetries), " retries: ">> \o e]

\* c.HTTP.Do returned the error e
TransportFailed(c, e) ==
  IF Contains(e, "EOF") \/ Contains(e, "timeout")
  THEN Continue(c, e)
  ELSE [c EXCEPT !.pc = "returned", !.attempts = @ + 1, !.lastErr = e, !.done = @ + 1,
                 !.err = <<"failed to execute request: ">> \o e]

\* one attempt fails in transport
AttemptTransportError(e) ==
  /\ call.pc = "do"
  /\ call' = TransportFailed(call, e)
  /\ UNCHANGED <<defs, councils, subAgents, messages, agent, run, thr, client, scheduledTasks, sched, now, webhooks, http, compact, memories, opt, agentMessages, inbox>>
  /\ api' = NoCall

\* one attempt is answered with a status other than 200, or with a body that
\* does not decode
AttemptBadResponse(e) ==
  /\ call.pc = "do"
  /\ call' = Continue(call, e)
  /\ UNCHANGED <<defs, councils, subAgents, messages, agent, run, thr, client, scheduledTasks, sched, now, webhooks, http, compact, memories, opt, agentMessages, inbox>>
  /\ api' = NoCall

\* one attempt is answered with a response that decodes: its content is returned
AttemptSucceeds(content) ==
  /\ call.pc = "do"
  /\ call' = [call EXCEPT !.pc = "returned", !.attempts = @ + 1, !.done = @ + 1, !.ret = content]
  /\ UNCHANGED <<defs, councils, subAgents, messages, agent, run, thr, client, scheduledTasks, sched, now, webhooks, http, compact, memories, opt, agentMessages, inbox>>
  /\ api' = NoCall

\* time.Sleep(time.Second * time.Duration(i)) at the top of a retry
Backoff ==
  /\ call.pc = "sleep"
  /\ call' = [call EXCEPT !.pc = "do", !.slept = Append(@, call.i)]
  /\ UNCHANGED <<defs, councils, subAgents, messages, agent, run, thr, client, scheduledTasks, sched, now, webhooks, http, compact, memories, opt, agentMessages, inbox>>
  /\ api' = NoCall

\* the goroutines that call the store's tools next to each other
ToolProcs == {1, 2}

\* ------------------------------------------------------------------------
\* The memories table (memory.go) and the optimize_memory tool
\* ------------------------------------------------------------------------
NoMemories == [rows |-> EmptyTable, seq |-> 0]

\* INSERT INTO memories (content, type, tags)
SaveMemory(tbl, content, memType, tags) ==
  [rows |-> ((tbl.seq + 1) :> [ID |-> tbl.seq + 1, Content |-> content, Type |-> memType,
                               Tags |-> tags]) @@ tbl.rows,
   seq |-> tbl.seq + 1]

\* SELECT ... FROM memories: the rows (the order does not matter to the tool)
GetAllMemories(tbl) == {tbl.rows[i] : i \in DOMAIN tbl.rows}

\* DELETE FROM memories WHERE id = ?
DeleteMemory(tbl, id) ==
  [rows |-> [i \in DOMAIN tbl.rows \ {id} |-> tbl.rows[i]], seq |-> tbl.seq]

\* the remember tool: content is required, and the memory is saved
Remember(content, memType, tags) ==
  /\ IF content = <<>>
     THEN /\ api' = Outcome("remember", content, 0, <<"content is required">>)
          /\ UNCHANGED memories
     ELSE /\ memories' = SaveMemory(memories, content, memType, tags)
          /\ api' = Outcome("remember", content, memories.seq + 1, NoErr)
  /\ UNCHANGED <<defs, councils, subAgents, messages, agent, run, thr, client, scheduledTasks, sched, now, webhooks, http, compact, call, opt, agentMessages, inbox>>

\* the plan the tool decodes from the model's answer
NoPlan == [Delete |-> <<>>, Merge |-> <<>>]

\* a call of the optimize_memory tool: the plan it works on, the places it has
\* reached in plan.Delete (d), in plan.Merge (m) and in the ids of the merge
\* group m (k), and what it returned
IdleOptimize == [pc |-> "idle", plan |-> NoPlan, d |-> 1, m |-> 1, k |-> 1,
                 ret |-> <<>>, err |-> NoErr]

\* Execute up to the call of GenerateResponse
OptimizeBegin(r) ==
  /\ opt[r].pc = "idle"
  /\ opt' = [opt EXCEPT ![r] =
        IF Cardinality(GetAllMemories(memories)) < 2
        THEN [IdleOptimize EXCEPT !.ret = <<"Not enough memories to optimize.">>]
        ELSE [IdleOptimize EXCEPT !.pc = "llm"]]
  /\ UNCHANGED <<defs, councils, subAgents, messages, agent, run, thr, client, scheduledTasks, sched, now, webhooks, http, compact, call, memories, agentMessages, inbox>>
  /\ api' = NoCall

\* GenerateResponse fails: Execute returns the error
OptimizeFailed(r, e) ==
  /\ opt[r].pc = "llm"
  /\ opt' = [opt EXCEPT ![r] = [IdleOptimize EXCEPT !.err = e]]
  /\ UNCHANGED <<defs, councils, subAgents, messages, agent, run, thr, client, scheduledTasks, sched, now, webhooks, http, compact, call, memories, agentMessages, inbox>>
  /\ api' = NoCall

\* GenerateResponse returns: an answer that does not decode is reported, one
\* that decodes is the plan
OptimizePlanned(r, resp) ==
  /\ opt[r].pc = "llm"
  /\ opt' = [opt EXCEPT ![r] =
        IF ~resp.ok
        THEN [IdleOptimize EXCEPT !.ret = <<"Failed to parse optimization plan: ">>]
        ELSE [IdleOptimize EXCEPT !.pc = "delete", !.plan = resp.plan]]
  /\ UNCHANGED <<defs, councils, subAgents, messages, agent, run, thr, client, scheduledTasks, sched, now, webhooks, http, compact, call, memories, agentMessages, inbox>>
  /\ api' = NoCall

\* the loop over plan.Delete: one DELETE statement, or the end of the loop
OptimizeDelete(r) ==
  LET o == opt[r]
  IN /\ o.pc = "delete"
     /\ IF o.d <= Len(o.plan.Delete)
        THEN /\ memories' = DeleteMemory(memories, o.plan.Delete[o.d])
             /\ opt' = [opt EXCEPT ![r].d = @ + 1]
        ELSE /\ opt' = [opt EXCEPT ![r].pc = "merge"]
             /\ UNCHANGED memories
     /\ UNCHANGED <<defs, councils, subAgents, messages, agent, run, thr, client, scheduledTasks, sched, now, webhooks, http, compact, call, agentMessages, inbox>>
     /\ api' = NoCall

\* the loop over plan.Merge: one DELETE statement of the group's ids, or the
\* SaveMemory that ends the group
OptimizeMerge(r) ==
  LET o == opt[r]
      ids == o.plan.Merge[o.m].IDs
  IN /\ o.pc = "merge"
     /\ o.m <= Len(o.plan.Merge)
     /\ IF o.k <= Len(ids)
        THEN /\ memories' = DeleteMemory(memories, ids[o.k])
             /\ opt' = [opt EXCEPT ![r].k = @ + 1]
        ELSE /\ memories' = SaveMemory(memories, o.plan.Merge[o.m].NewContent, "fact", <<"merged">>)
             /\ opt' = [opt EXCEPT ![r].m = @ + 1, ![r].k = 1]
     /\ UNCHANGED <<defs, councils, subAgents, messages, agent, run, thr, client, scheduledTasks, sched, now, webhooks, http, compact, call, agentMessages, inbox>>
     /\ api' = NoCall

\* Execute returns the counts
OptimizeReturn(r) ==
  LET o == opt[r]
  IN /\ o.pc = "merge"
     /\ o.m > Len(o.plan.Merge)
     /\ opt' = [opt EXCEPT ![r] = [o EXCEPT !.pc = "idle",
           !.ret = <<"Optimization complete. Deleted: ", ToString(Len(o.plan.Delete)),
                     ", Merged: ", ToString(Len(o.plan.Merge))>>]]
     /\ UNCHANGED <<defs, councils, subAgents, messages, agent, run, thr, client, scheduledTasks, sched, now, webhooks, http, compact, call, memories, agentMessages, inbox>>
     /\ api' = NoCall

\* ------------------------------------------------------------------------
\* The agent_messages table and the send_message and check_inbox tools
\* ------------------------------------------------------------------------
\* a call of check_inbox: the agent it checks, the ids of the rows its SELECT
\* returned, and the text it returns
IdleInbox == [pc |-> "idle", agent |-> <<>>, rows |-> {}, ret |-> <<>>]

\* send_message: INSERT INTO agent_messages (from_agent, to_agent, content);
\* read DEFAULT 0
SendMessage(to, content) ==
  /\ agentMessages' = Append(agentMessages,
                             [from_agent |-> "main", to_agent |-> to, content |-> content,
                              read |-> 0])
  /\ api' = Outcome("send_message", to, Len(agentMessages) + 1, NoErr)
  /\ UNCHANGED <<defs, councils, subAgents, messages, agent, run, thr, client, scheduledTasks, sched, now, webhooks, http, compact, call, memories, opt, inbox>>

\* the rows SELECT ... WHERE to_agent = ? AND read = 0 returns
Unread(tbl, name) == {i \in 1 .. Len(tbl) : tbl[i].to_agent = name /\ tbl[i].read = 0}

\* the lines check_inbox writes for the rows ids, in the order of the table
RECURSIVE InboxLines(_, _)
InboxLines(tbl, ids) ==
  IF ids = {} THEN <<>>
  ELSE LET i == CHOOSE k \in ids : \A m \in ids : k <= m
       IN <<"From ", tbl[i].from_agent, ": ">> \o tbl[i].content \o <<"\n">>
          \o InboxLines(tbl, ids \ {i})

\* check_inbox up to the UPDATE: the SELECT and the loop over its rows; with no
\* row the call returns
InboxSelect(r, name) ==
  LET ids == Unread(agentMessages, name)
  IN /\ inbox[r].pc = "idle"
     /\ inbox' = [inbox EXCEPT ![r] =
           IF ids = {}
           THEN [IdleInbox EXCEPT !.agent = name, !.ret = <<"No new messages.">>]
           ELSE [pc |-> "selected", agent |-> name, rows |-> ids,
                 ret |-> InboxLines(agentMessages, ids)]]
     /\ api' = Outcome("check_inbox select", name, 0, NoErr)
     /\ UNCHANGED <<defs, councils, subAgents, messages, agent, run, thr, client, scheduledTasks, sched, now, webhooks, http, compact, call, memories, opt, agentMessages>>

\* UPDATE agent_messages SET read = 1 WHERE to_agent = ? AND read = 0
MarkAllRead(tbl, name) ==
  [i \in 1 .. Len(tbl) |-> IF tbl[i].to_agent = name /\ tbl[i].read = 0
                           THEN [tbl[i] EXCEPT !.read = 1] ELSE tbl[i]]

\* check_inbox from the UPDATE to its return
InboxMark(r) ==
  /\ inbox[r].pc = "selected"
  /\ agentMessages' = MarkAllRead(agentMessages, inbox[r].agent)
  /\ inbox' = [inbox EXCEPT ![r].pc = "idle"]
  /\ api' = Outcome("check_inbox", inbox[r].agent, 0, NoErr)
  /\ UNCHANGED <<defs, councils, subAgents, messages, agent, run, thr, client, scheduledTasks, sched, now, webhooks, http, compact, call, memories, opt>>

\* ------------------------------------------------------------------------
\* Specifications
\* ------------------------------------------------------------------------
MainProc == MaxRuns + 1
MainProc2 == MaxRuns + 2

NoTasks == [rows |-> EmptyTable, seq |-> 0]
NewScheduler == [started |-> FALSE, jobs |-> EmptyTable]
StartTime == 1

Init ==
  /\ defs = EmptyTable
  /\ councils = EmptyTable
  /\ subAgents = EmptyTable
  /\ messages = <<>>
  /\ agent = [o \in Objs |-> IF o = MainAgent
                            THEN [NoAgent EXCEPT !.tools = Registry, !.hasStore = TRUE]
                            ELSE NoAgent]
  /\ run = [g \in Procs |-> IdleRun]
  /\ thr = [i \in Ids |-> NoThread]
  /\ client = [Model |-> DefaultModel]
  /\ scheduledTasks = NoTasks
  /\ sched = NewScheduler
  /\ now = StartTime
  /\ webhooks = EmptyTable
  /\ http = <<>>
  /\ compact = NoCompact
  /\ call = IdleCall
  /\ memories = NoMemories
  /\ opt = [r \in ToolProcs |-> IdleOptimize]
  /\ agentMessages = <<>>
  /\ inbox = [r \in ToolProcs |-> IdleInbox]
  /\ api = NoCall

\* model responses and inputs of the manager specification
SubCap == 1
SubRaws == {<<"<json>", "{", "final:A", "}", "</json>">>, <<"{", "tool:a", "}">>}
ToolsInputs == {<<"a", ",", " ", "z">>}
ProgressInputs == {50}
TransportErrors == {<<"EOF">>}
DeadlineExceeded == <<"context deadline exceeded">>

\* the manager: definitions, spawns, council sessions and their goroutines
Next ==
  \/ \E tools \in ToolsInputs : DefineAgent(<<"coder">>, <<"P">>, tools, <<>>)
  \/ DefineCouncil(<<"duo">>, <<<<"coder">>, <<" ", "ghost">>>>)
  \/ \E id \in Ids, images \in ImageInputs : Spawn(id, <<"p">>, images)
  \/ \E id \in Ids : SpawnNamed(id, <<"coder">>, <<"p">>, <<>>)
  \/ \E id \in Ids : RunCouncilSession(id, <<"duo">>, <<"q">>)
  \/ \E id \in Ids : SpawnStart(id)
  \/ \E id \in Ids : SubAgentBegin(id)
  \/ \E id \in Ids : CallLLM(id, SubCap)
  \/ \E id \in Ids : LLMReturns(id, SubRaws)
  \/ \E id \in Ids, e \in TransportErrors \cup {DeadlineExceeded} : LLMError(id, e)
  \/ \E id \in Ids, ok \in BOOLEAN : ToolReturn(id, ok)
  \/ \E id \in Ids : Deadline(id)
  \/ \E id \in Ids : SubAgentEnd(id)
  \/ \E id \in Ids : CouncilTurn(id)
  \/ \E id \in Ids : CouncilTurnEnd(id)
  \/ \E id \in Ids : CouncilEnd(id)
  \/ \E id \in Ids, p \in ProgressInputs : UpdateProgress(id, p)

Spec == Init /\ [][Next]_vars

\* the sub-agent runs alone, with the scheduling the runtime guarantees: a
\* goroutine that can step does, a context's deadline passes, a call whose
\* context is done is cut off, a tool call returns; a model call whose context
\* is alive may never return
NextSub ==
  \/ \E tools \in ToolsInputs : DefineAgent(<<"coder">>, <<"P">>, tools, <<>>)
  \/ \E id \in Ids, images \in ImageInputs : Spawn(id, <<"p">>, images)
  \/ \E id \in Ids : SpawnNamed(id, <<"coder">>, <<"p">>, <<>>)
  \/ \E id \in Ids : SpawnStart(id)
  \/ \E id \in Ids : SubAgentBegin(id)
  \/ \E id \in Ids : CallLLM(id, SubCap)
  \/ \E id \in Ids : LLMReturns(id, SubRaws)
  \/ \E id \in Ids, e \in TransportErrors \cup {DeadlineExceeded} : LLMError(id, e)
  \/ \E id \in Ids, ok \in BOOLEAN : ToolReturn(id, ok)
  \/ \E id \in Ids : Deadline(id)
  \/ \E id \in Ids : SubAgentEnd(id)
  \/ \E id \in Ids, p \in ProgressInputs : UpdateProgress(id, p)

FairSpec ==
  /\ Init
  /\ [][NextSub]_vars
  /\ \A id \in Ids :
       /\ WF_vars(SpawnStart(id))
       /\ WF_vars(SubAgentBegin(id))
       /\ WF_vars(CallLLM(id, SubCap))
       /\ WF_vars(Deadline(id))
       /\ WF_vars(LLMError(id, DeadlineExceeded))
       /\ WF_vars(\E ok \in BOOLEAN : ToolReturn(id, ok))
       /\ WF_vars(SubAgentEnd(id))

\* one Run on the main agent against a model that keeps asking for tools
LoopCap == 9
LoopRaws == {<<"{", "final:", "tool:a", "}">>, <<"{", "tool:z", "}">>, <<"{", "final:A", "}">>,
             <<"{", "final:5", "tool:a", "}">>, <<"{", "tool:", "thought:x", "}">>}

NextLoop ==
  \/ MainRun(MainProc, <<"hi">>, <<>>)
  \/ CallLLM(MainProc, LoopCap)
  \/ LLMReturns(MainProc, LoopRaws)
  \/ \E e \in TransportErrors : LLMError(MainProc, e)
  \/ \E ok \in BOOLEAN : ToolReturn(MainProc, ok)

SpecLoop == Init /\ [][NextLoop]_vars

\* one Run on the main agent against every model response of up to MaxRawLen
\* tokens
ParseCap == 2
ParseTokens == {"ws", "txt", "<json>", "</json>", "{", "}", "final:A", "tool:a", "thought:x"}
ParseRaws == SeqsUpTo(ParseTokens, MaxRawLen)

NextParse ==
  \/ MainRun(MainProc, <<"hi">>, <<>>)
  \/ CallLLM(MainProc, ParseCap)
  \/ LLMReturns(MainProc, ParseRaws)
  \/ \E ok \in BOOLEAN : ToolReturn(MainProc, ok)

SpecParse == Init /\ [][NextParse]_vars

\* SpawnNamed against every tools field of up to MaxToolsLen characters
ToolsChars == {",", " ", "*", "a", "b", "z"}

InitTools ==
  /\ \E tools \in SeqsUpTo(ToolsChars, MaxToolsLen) :
        defs = SaveSubAgentDefinition(EmptyTable, <<"coder">>, <<"P">>, tools, <<>>)
  /\ councils = EmptyTable
  /\ subAgents = EmptyTable
  /\ messages = <<>>
  /\ agent = [o \in Objs |-> IF o = MainAgent
                            THEN [NoAgent EXCEPT !.tools = Registry, !.hasStore = TRUE]
                            ELSE NoAgent]
  /\ run = [g \in Procs |-> IdleRun]
  /\ thr = [i \in Ids |-> NoThread]
  /\ client = [Model |-> DefaultModel]
  /\ scheduledTasks = NoTasks
  /\ sched = NewScheduler
  /\ now = StartTime
  /\ webhooks = EmptyTable
  /\ http = <<>>
  /\ compact = NoCompact
  /\ call = IdleCall
  /\ memories = NoMemories
  /\ opt = [r \in ToolProcs |-> IdleOptimize]
  /\ agentMessages = <<>>
  /\ inbox = [r \in ToolProcs |-> IdleInbox]
  /\ api = NoCall

NextTools ==
  \/ \E id \in Ids : SpawnNamed(id, <<"coder">>, <<"p">>, <<>>)
  \/ \E id \in Ids : SpawnStart(id)
  \/ \E id \in Ids : SubAgentBegin(id)

SpecTools == InitTools /\ [][NextTools]_vars

\* the main conversation: up to MaxTurns turns of Run / RunVision, each against a
\* model that answers, fails or asks for tools, under a context that may end
MaxTurns == 2
TurnCap == 2
TurnRaws == {<<"txt">>, <<"ws">>, <<"{", "final:A", "}">>, <<"{", "tool:a", "}">>,
             <<"{", "tool:z", "}">>, <<"{", "thought:x", "}">>}

NextTurn ==
  \/ /\ UserTurns(agent[MainAgent].history) < MaxTurns
     /\ \E images \in ImageInputs : MainRun(MainProc, <<"hi">>, images)
  \/ CallLLM(MainProc, TurnCap)
  \/ LLMReturns(MainProc, TurnRaws)
  \/ \E e \in TransportErrors \cup {DeadlineExceeded} : LLMError(MainProc, e)
  \/ \E ok \in BOOLEAN : ToolReturn(MainProc, ok)
  \/ Cancel(MainProc)
  \/ MainReturn(MainProc)

SpecTurn == Init /\ [][NextTurn]_vars

\* Runs that share the client: named sub-agents whose definition carries a
\* model of its own, next to turns of the main conversation
ModelCap == 1
ModelRaws == {<<"{", "final:A", "}">>, <<"ws">>, <<"txt">>}

NextModel ==
  \/ DefineAgent(<<"coder">>, <<"P">>, <<"*">>, <<"m1">>)
  \/ \E id \in Ids : SpawnNamed(id, <<"coder">>, <<"p">>, <<>>)
  \/ \E id \in Ids : SpawnStart(id)
  \/ \E id \in Ids : SubAgentBegin(id)
  \/ \E id \in Ids : SubAgentEnd(id)
  \/ /\ UserTurns(agent[MainAgent].history) < MaxTurns
     /\ MainRun(MainProc, <<"hi">>, <<>>)
  \/ \E g \in Procs : CallLLM(g, ModelCap)
  \/ \E g \in Procs : LLMReturns(g, ModelRaws)
  \/ \E g \in Procs, e \in TransportErrors : LLMError(g, e)
  \/ MainReturn(MainProc)

SpecModel == Init /\ [][NextModel]_vars

\* council sessions: a council that declares two members that may have a
\* definition and one that never has; every member turn is answered, fails in
\* transport or runs into its deadline
CouncilCap == 1
CouncilRaws == {<<"{", "final:A", "}">>}
Declared == <<<<"coder">>, <<" ", "ghost">>, <<"nobody", " ">>>>

NextCouncil ==
  \/ \E name \in {<<"coder">>, <<"ghost">>} : DefineAgent(name, <<"P">>, <<"*">>, <<>>)
  \/ DefineCouncil(<<"duo">>, Declared)
  \/ \E id \in Ids : RunCouncilSession(id, <<"duo">>, <<"q">>)
  \/ \E id \in Ids : SpawnStart(id)
  \/ \E id \in Ids : CouncilTurn(id)
  \/ \E id \in Ids : CallLLM(id, CouncilCap)
  \/ \E id \in Ids : LLMReturns(id, CouncilRaws)
  \/ \E id \in Ids, e \in TransportErrors \cup {DeadlineExceeded} : LLMError(id, e)
  \/ \E id \in Ids : Deadline(id)
  \/ \E id \in Ids : CouncilTurnEnd(id)
  \/ \E id \in Ids : CouncilEnd(id)

SpecCouncil == Init /\ [][NextCouncil]_vars

\* the Scheduler: rows that were persisted before the process started, Start,
\* up to MaxTasks tasks added while it runs, timers and executeTask goroutines
MaxTasks == 2
MaxTime == 2
Past == <<"2000-01-01T00:00:00Z">>
Future == <<"2100-01-01T00:00:00Z">>
TaskInputs == {[Type |-> "one-shot", Schedule |-> Past, TargetType |-> "subagent", TargetName |-> <<"coder">>],
               [Type |-> "one-shot", Schedule |-> Future, TargetType |-> "subagent", TargetName |-> <<"coder">>],
               [Type |-> "one-shot", Schedule |-> Future, TargetType |-> "council", TargetName |-> <<"duo">>],
               [Type |-> "one-shot", Schedule |-> <<"tomorrow">>, TargetType |-> "subagent", TargetName |-> <<"coder">>],
               [Type |-> "recurring", Schedule |-> <<"0 * * * * *">>, TargetType |-> "subagent", TargetName |-> <<"coder">>]}

InitSched ==
  /\ defs = EmptyTable
  /\ councils = EmptyTable
  /\ subAgents = EmptyTable
  /\ messages = <<>>
  /\ agent = [o \in Objs |-> IF o = MainAgent
                            THEN [NoAgent EXCEPT !.tools = Registry, !.hasStore = TRUE]
                            ELSE NoAgent]
  /\ run = [g \in Procs |-> IdleRun]
  /\ thr = [i \in Ids |-> NoThread]
  /\ client = [Model |-> DefaultModel]
  /\ scheduledTasks \in {NoTasks,
                          SaveScheduledTask(NoTasks, "one-shot", Past, <<"ping">>,
                                            "subagent", <<"coder">>)}
  /\ sched = NewScheduler
  /\ now = StartTime
  /\ webhooks = EmptyTable
  /\ http = <<>>
  /\ compact = NoCompact
  /\ call = IdleCall
  /\ memories = NoMemories
  /\ opt = [r \in ToolProcs |-> IdleOptimize]
  /\ agentMessages = <<>>
  /\ inbox = [r \in ToolProcs |-> IdleInbox]
  /\ api = NoCall

NextSched ==
  \/ DefineAgent(<<"coder">>, <<"P">>, <<"*">>, <<>>)
  \/ DefineCouncil(<<"duo">>, <<<<"coder">>>>)
  \/ Start
  \/ /\ scheduledTasks.seq < MaxTasks
     /\ \E in \in TaskInputs :
           AddTask(in.Type, in.Schedule, <<"ping">>, in.TargetType, in.TargetName)
  \/ \E tid \in 1 .. MaxTasks : TimerFires(tid)
  \/ \E tid \in 1 .. MaxTasks : CronFire(tid)
  \/ \E tid \in 1 .. MaxTasks, id \in Ids : ExecuteDispatch(tid, id)
  \/ \E tid \in 1 .. MaxTasks : ExecuteFinish(tid)
  \/ Tick(MaxTime)

SpecSched == InitSched /\ [][NextSched]_vars

\* the Scheduler with its three sinks: up to FireTasks tasks for the main agent,
\* a named sub-agent and a council, persisted before the process started; a Run
\* of the main agent is answered
FireTasks == 2
FireCap == 1
FireRaws == {<<"{", "final:A", "}">>}
FireInputs == {[Type |-> "one-shot", Schedule |-> Past, TargetType |-> "main", TargetName |-> <<>>],
               [Type |-> "one-shot", Schedule |-> Future, TargetType |-> "subagent", TargetName |-> <<"coder">>],
               [Type |-> "recurring", Schedule |-> <<"0 * * * * *">>, TargetType |-> "council", TargetName |-> <<"duo">>]}

\* the table after the inputs were saved one after the other
RECURSIVE SavedTasks(_)
SavedTasks(inputs) ==
  IF inputs = <<>> THEN NoTasks
  ELSE LET in == inputs[Len(inputs)]
       IN SaveScheduledTask(SavedTasks(SubSeq(inputs, 1, Len(inputs) - 1)), in.Type,
                            in.Schedule, <<"ping">>, in.TargetType, in.TargetName)

InitFire ==
  /\ defs = SaveSubAgentDefinition(EmptyTable, <<"coder">>, <<"P">>, <<"*">>, <<>>)
  /\ councils = (<<"duo">> :> <<"coder">>)
  /\ subAgents = EmptyTable
  /\ messages = <<>>
  /\ agent = [o \in Objs |-> IF o = MainAgent
                            THEN [NoAgent EXCEPT !.tools = Registry, !.hasStore = TRUE]
                            ELSE NoAgent]
  /\ run = [g \in Procs |-> IdleRun]
  /\ thr = [i \in Ids |-> NoThread]
  /\ client = [Model |-> DefaultModel]
  /\ scheduledTasks \in {SavedTasks(inputs) : inputs \in SeqsUpTo(FireInputs, FireTasks)}
  /\ sched = NewScheduler
  /\ now = StartTime
  /\ webhooks = EmptyTable
  /\ http = <<>>
  /\ compact = NoCompact
  /\ call = IdleCall
  /\ memories = NoMemories
  /\ opt = [r \in ToolProcs |-> IdleOptimize]
  /\ agentMessages = <<>>
  /\ inbox = [r \in ToolProcs |-> IdleInbox]
  /\ api = NoCall

NextFire ==
  \/ Start
  \/ \E tid \in 1 .. FireTasks : TimerFires(tid)
  \/ \E tid \in 1 .. FireTasks : CronFire(tid)
  \/ \E tid \in 1 .. FireTasks, id \in Ids : ExecuteDispatch(tid, id)
  \/ \E tid \in 1 .. FireTasks : ExecuteDispatchMain(tid, MainProc)
  \/ CallLLM(MainProc, FireCap)
  \/ LLMReturns(MainProc, FireRaws)
  \/ \E e \in TransportErrors : LLMError(MainProc, e)
  \/ \E tid \in 1 .. FireTasks : ExecuteMainReturn(tid, MainProc)
  \/ \E tid \in 1 .. FireTasks : ExecuteFinish(tid)
  \/ Tick(MaxTime)

SpecFire == InitFire /\ [][NextFire]_vars

\* the webhook dispatcher: webhooks for the main agent, for a sub-agent that
\* may have a definition and for one that never has, and up to HookReqs requests
HookReqs == 2
HookCap == 1
HookRaws == {<<"{", "final:A", "}">>}
HookTargets == {<<>>, <<"coder">>, <<"ghost">>}
HookTemplates == {<<"echo ", "{{payload}}", " please">>, <<"{{payload}}", "{{payload}}">>}
HookIds == {<<>>, <<"abc">>, <<"nope">>}
HookBodies == {<<"hello", "{{payload}}">>}

NextHook ==
  \/ DefineAgent(<<"coder">>, <<"P">>, <<"*">>, <<>>)
  \/ \E target \in HookTargets, template \in HookTemplates :
        CreateWebhook(<<"abc">>, target, template)
  \/ /\ Len(http) < HookReqs
     /\ \E id \in HookIds, body \in HookBodies : handleWebhook(id, body)
  \/ \E i \in 1 .. HookReqs, id \in Ids : WebhookDispatch(i, id)
  \/ \E i \in 1 .. HookReqs : WebhookDispatchMain(i, MainProc)
  \/ CallLLM(MainProc, HookCap)
  \/ LLMReturns(MainProc, HookRaws)
  \/ \E i \in 1 .. HookReqs : WebhookMainReturn(i, MainProc)

SpecHook == Init /\ [][NextHook]_vars

\* the surfaces that drive the main agent: chat requests and Telegram
\* messages, a webhook and a scheduled task for the main agent
SurfaceTurns == 2
SurfaceReqs == 1
SurfaceCap == 1
SurfaceRaws == {<<"{", "final:A", "}">>}
SurfaceTask == [Type |-> "one-shot", Schedule |-> Past, TargetType |-> "main", TargetName |-> <<>>]

InitSurfaces ==
  /\ defs = EmptyTable
  /\ councils = EmptyTable
  /\ subAgents = EmptyTable
  /\ messages = <<>>
  /\ agent = [o \in Objs |-> IF o = MainAgent
                            THEN [NoAgent EXCEPT !.tools = Registry, !.hasStore = TRUE]
                            ELSE NoAgent]
  /\ run = [g \in Procs |-> IdleRun]
  /\ thr = [i \in Ids |-> NoThread]
  /\ client = [Model |-> DefaultModel]
  /\ scheduledTasks = SavedTasks(<<SurfaceTask>>)
  /\ sched = NewScheduler
  /\ now = StartTime
  /\ webhooks = SaveWebhook(EmptyTable, <<"abc">>, <<"main">>, <<"echo ", "{{payload}}">>)
  /\ http = <<>>
  /\ compact = NoCompact
  /\ call = IdleCall
  /\ memories = NoMemories
  /\ opt = [r \in ToolProcs |-> IdleOptimize]
  /\ agentMessages = <<>>
  /\ inbox = [r \in ToolProcs |-> IdleInbox]
  /\ api = NoCall

NextSurfaces ==
  \/ /\ UserTurns(agent[MainAgent].history) < SurfaceTurns
     /\ \E g \in MainProcs : MainRun(g, <<"hi">>, <<>>)
  \/ \E g \in MainProcs : MainReturn(g)
  \/ /\ Len(http) < SurfaceReqs
     /\ UserTurns(agent[MainAgent].history) < SurfaceTurns
     /\ handleWebhook(<<"abc">>, <<"hello">>)
  \/ /\ UserTurns(agent[MainAgent].history) < SurfaceTurns
     /\ \E i \in 1 .. SurfaceReqs, g \in MainProcs : WebhookDispatchMain(i, g)
  \/ \E i \in 1 .. SurfaceReqs, g \in MainProcs : WebhookMainReturn(i, g)
  \/ Start
  \/ /\ UserTurns(agent[MainAgent].history) < SurfaceTurns
     /\ \E g \in MainProcs : ExecuteDispatchMain(1, g)
  \/ \E g \in MainProcs : ExecuteMainReturn(1, g)
  \/ ExecuteFinish(1)
  \/ \E g \in MainProcs : CallLLM(g, SurfaceCap)
  \/ \E g \in MainProcs : LLMReturns(g, SurfaceRaws)

SpecSurfaces == InitSurfaces /\ [][NextSurfaces]_vars

\* the chat surface alone, one request after the other: turns with and without
\* images, whose model may ask for a tool, and "/tool" commands
ChatTurns == 2
ChatReqs == 2
ChatCap == 2
ChatRaws == {<<"{", "final:A", "}">>, <<"{", "tool:a", "}">>}
ChatTools == {<<"a">>, <<"zz">>}

NextChat ==
  \/ /\ UserTurns(agent[MainAgent].history) < ChatTurns
     /\ \E images \in ImageInputs : MainRun(MainProc, <<"hi">>, images)
  \/ CallLLM(MainProc, ChatCap)
  \/ LLMReturns(MainProc, ChatRaws)
  \/ ToolReturn(MainProc, TRUE)
  \/ MainReturn(MainProc)
  \/ /\ Len(http) < ChatReqs
     /\ run[MainProc].pc = "idle"
     /\ \E toolName \in ChatTools, images \in ImageInputs : handleChatTool(toolName, images)

SpecChat == Init /\ [][NextChat]_vars

\* the compact tool on a log of up to MaxLog messages persisted by earlier
\* turns, next to a turn of the main conversation
MaxLog == 12
Summaries == {<<"sum">>}
CompactRaws == {<<"{", "final:A", "}">>}

\* the log after n messages of a conversation
PersistedLog(n) ==
  [i \in 1 .. n |-> [role |-> IF i % 2 = 1 THEN "user" ELSE "assistant",
                      content |-> <<ToString(i)>>]]

InitCompact ==
  /\ defs = EmptyTable
  /\ councils = EmptyTable
  /\ subAgents = EmptyTable
  /\ messages \in {PersistedLog(n) : n \in 0 .. MaxLog}
  /\ agent = [o \in Objs |-> IF o = MainAgent
                            THEN [NoAgent EXCEPT !.tools = Registry, !.hasStore = TRUE]
                            ELSE NoAgent]
  /\ run = [g \in Procs |-> IdleRun]
  /\ thr = [i \in Ids |-> NoThread]
  /\ client = [Model |-> DefaultModel]
  /\ scheduledTasks = NoTasks
  /\ sched = NewScheduler
  /\ now = StartTime
  /\ webhooks = EmptyTable
  /\ http = <<>>
  /\ compact = NoCompact
  /\ call = IdleCall
  /\ memories = NoMemories
  /\ opt = [r \in ToolProcs |-> IdleOptimize]
  /\ agentMessages = <<>>
  /\ inbox = [r \in ToolProcs |-> IdleInbox]
  /\ api = NoCall

NextCompact ==
  \/ CompactBegin
  \/ \E e \in TransportErrors : CompactFailed(e)
  \/ \E summary \in Summaries : CompactDelete(summary)
  \/ CompactInsert
  \/ /\ UserTurns(agent[MainAgent].history) < 1
     /\ MainRun(MainProc, <<"hi">>, <<>>)
  \/ CallLLM(MainProc, 1)
  \/ LLMReturns(MainProc, CompactRaws)
  \/ MainReturn(MainProc)

SpecCompact == InitCompact /\ [][NextCompact]_vars

\* background runs next to main-conversation turns: generic and named
\* sub-agents and council sessions, whose model may ask for the compact tool,
\* while the main agent takes turns on a log that already holds a conversation
MixTurns == 1
MixCap == 1
MixLog == 5
MixRaws == {<<"{", "final:A", "}">>, <<"{", "tool:compact", "}">>}

InitMix ==
  /\ defs = SaveSubAgentDefinition(EmptyTable, <<"coder">>, <<"P">>, <<"*">>, <<>>)
  /\ councils = (<<"duo">> :> <<"coder">>)
  /\ subAgents = EmptyTable
  /\ messages = PersistedLog(MixLog)
  /\ agent = [o \in Objs |-> IF o = MainAgent
                            THEN [NoAgent EXCEPT !.tools = Registry, !.hasStore = TRUE]
                            ELSE NoAgent]
  /\ run = [g \in Procs |-> IdleRun]
  /\ thr = [i \in Ids |-> NoThread]
  /\ client = [Model |-> DefaultModel]
  /\ scheduledTasks = NoTasks
  /\ sched = NewScheduler
  /\ now = StartTime
  /\ webhooks = EmptyTable
  /\ http = <<>>
  /\ compact = NoCompact
  /\ call = IdleCall
  /\ memories = NoMemories
  /\ opt = [r \in ToolProcs |-> IdleOptimize]
  /\ agentMessages = <<>>
  /\ inbox = [r \in ToolProcs |-> IdleInbox]
  /\ api = NoCall

NextMix ==
  \/ \E id \in Ids : Spawn(id, <<"p">>, <<>>)
  \/ \E id \in Ids : SpawnNamed(id, <<"coder">>, <<"p">>, <<>>)
  \/ \E id \in Ids : RunCouncilSession(id, <<"duo">>, <<"q">>)
  \/ \E id \in Ids : SpawnStart(id)
  \/ \E id \in Ids : SubAgentBegin(id)
  \/ \E id \in Ids : CouncilTurn(id)
  \/ \E id \in Ids : CallLLM(id, MixCap)
  \/ \E id \in Ids : LLMReturns(id, MixRaws)
  \/ \E id \in Ids : ExecuteCompact(id)
  \/ \E e \in TransportErrors : CompactFailed(e)
  \/ \E summary \in Summaries : CompactDelete(summary)
  \/ CompactInsert
  \/ \E id \in Ids : CompactReturn(id)
  \/ \E id \in Ids : SubAgentEnd(id)
  \/ \E id \in Ids : CouncilTurnEnd(id)
  \/ \E id \in Ids : CouncilEnd(id)
  \/ /\ UserTurns(agent[MainAgent].history) < MixTurns
     /\ MainRun(MainProc, <<"hi">>, <<>>)
  \/ CallLLM(MainProc, 1)
  \/ LLMReturns(MainProc, CompactRaws)
  \/ MainReturn(MainProc)

SpecMix == InitMix /\ [][NextMix]_vars

\* the schedule_task tool next to a running Scheduler: the table holds rows
\* when the Scheduler starts, valid ones and ones whose schedule does not
\* parse, and the tool adds and deletes rows while it runs
MaxJobs == 3
JobRows == 2
JobInputs == {[Type |-> "one-shot", Schedule |-> Future, TargetType |-> "subagent", TargetName |-> <<"coder">>],
              [Type |-> "one-shot", Schedule |-> <<"tomorrow">>, TargetType |-> "subagent", TargetName |-> <<"coder">>],
              [Type |-> "recurring", Schedule |-> <<"0 * * * * *">>, TargetType |-> "subagent", TargetName |-> <<"coder">>],
              [Type |-> "recurring", Schedule |-> <<"every day">>, TargetType |-> "subagent", TargetName |-> <<"coder">>]}
JobIds == {<<"1">>, <<"2">>, <<"x">>}

InitJobs ==
  /\ defs = SaveSubAgentDefinition(EmptyTable, <<"coder">>, <<"P">>, <<"*">>, <<>>)
  /\ councils = EmptyTable
  /\ subAgents = EmptyTable
  /\ messages = <<>>
  /\ agent = [o \in Objs |-> IF o = MainAgent
                            THEN [NoAgent EXCEPT !.tools = Registry, !.hasStore = TRUE]
                            ELSE NoAgent]
  /\ run = [g \in Procs |-> IdleRun]
  /\ thr = [i \in Ids |-> NoThread]
  /\ client = [Model |-> DefaultModel]
  /\ scheduledTasks \in {SavedTasks(inputs) : inputs \in SeqsUpTo(JobInputs, JobRows)}
  /\ sched = NewScheduler
  /\ now = StartTime
  /\ webhooks = EmptyTable
  /\ http = <<>>
  /\ compact = NoCompact
  /\ call = IdleCall
  /\ memories = NoMemories
  /\ opt = [r \in ToolProcs |-> IdleOptimize]
  /\ agentMessages = <<>>
  /\ inbox = [r \in ToolProcs |-> IdleInbox]
  /\ api = NoCall

NextJobs ==
  \/ Start
  \/ /\ scheduledTasks.seq < MaxJobs
     /\ \E in \in JobInputs :
           ScheduleToolAdd(in.Type, in.Schedule, <<"ping">>, in.TargetType, in.TargetName)
  \/ \E id \in JobIds : ScheduleToolDelete(id)
  \/ \E tid \in 1 .. MaxJobs : TimerFires(tid)
  \/ \E tid \in 1 .. MaxJobs : CronFire(tid)
  \/ \E tid \in 1 .. MaxJobs, id \in Ids : ExecuteDispatch(tid, id)
  \/ \E tid \in 1 .. MaxJobs : ExecuteFinish(tid)
  \/ Tick(MaxTime)

SpecJobs == InitJobs /\ [][NextJobs]_vars

\* calls of GenerateResponse one after the other, every attempt of which may
\* fail in transport, be answered with a bad status or body, or succeed
BridgeCalls == 3
Contents == {<<"hi">>, <<"{", "final:A", "}">>}

NextBridge ==
  \/ /\ call.done < BridgeCalls
     /\ GenerateBegin
  \/ \E e \in TransportFailures : AttemptTransportError(e)
  \/ \E e \in StatusFailures \cup {DecodeFailure} : AttemptBadResponse(e)
  \/ \E content \in Contents : AttemptSucceeds(content)
  \/ Backoff

SpecBridge == Init /\ [][NextBridge]_vars

\* memories are saved and optimize_memory is called, by two goroutines next to
\* each other; the model answers with a plan that merges two memories, with one
\* that deletes a memory, or with text that does not decode
MaxMemories == 3
MaxMerged == 1
MemoryContents == {<<>>, <<"a">>}
Plans == {[ok |-> FALSE, plan |-> NoPlan],
          [ok |-> TRUE, plan |-> [Delete |-> <<>>,
                                  Merge |-> <<[IDs |-> <<1, 2>>, NewContent |-> <<"ab">>]>>]],
          [ok |-> TRUE, plan |-> [Delete |-> <<3>>, Merge |-> <<>>]]}

NextMemory ==
  \/ /\ memories.seq < MaxMemories
     /\ \E content \in MemoryContents : Remember(content, "fact", <<>>)
  \/ /\ memories.seq < MaxMemories + MaxMerged
     /\ \E r \in ToolProcs : OptimizeBegin(r)
  \/ \E r \in ToolProcs, e \in TransportErrors : OptimizeFailed(r, e)
  \/ \E r \in ToolProcs, resp \in Plans : OptimizePlanned(r, resp)
  \/ \E r \in ToolProcs : OptimizeDelete(r)
  \/ \E r \in ToolProcs : OptimizeMerge(r)
  \/ \E r \in ToolProcs : OptimizeReturn(r)

SpecMemory == Init /\ [][NextMemory]_vars

\* the mailbox: messages are sent to two agents while two goroutines check
\* their inboxes
MaxMail == 2
Recipients == {<<"coder">>, <<"critic">>}

NextInbox ==
  \/ /\ Len(agentMessages) < MaxMail
     /\ \E to \in Recipients : SendMessage(to, <<"hello">>)
  \/ \E r \in ToolProcs, name \in Recipients : InboxSelect(r, name)
  \/ \E r \in ToolProcs : InboxMark(r)

SpecInbox == Init /\ [][NextInbox]_vars

\* ------------------------------------------------------------------------
\* Properties
\* ------------------------------------------------------------------------
Terminal(row) == row.status \in {"completed", "failed"}

\* C1: the status of a TaskRun changes only from running to completed or to
\* failed; a row that is completed or failed keeps its status for ever, and no
\* row disappears
C1_StatusOnlyAdvances ==
  [][\A id \in DOMAIN subAgents :
        /\ id \in DOMAIN subAgents'
        /\ subAgents'[id].status # subAgents[id].status =>
              /\ subAgents[id].status = "running"
              /\ Terminal(subAgents'[id])]_vars

\* a finished run whose row a later progress update has touched
C1_Witness ==
  \E id \in DOMAIN subAgents : Terminal(subAgents[id]) /\ subAgents[id].progress = 50

\* C2: in what ListAll() shows, finished_at is set iff the status is not
\* running, and a row that is not running has progress 100
C2_FinishedIffTerminal ==
  \A id \in DOMAIN GetSubAgents :
     /\ (GetSubAgents[id].finished_at # Null) <=> (GetSubAgents[id].status # "running")
     /\ GetSubAgents[id].status # "running" => GetSubAgents[id].progress = 100

\* C3: a row enters the table as running with progress 0 while its goroutine is
\* not yet started; every started goroutine, every model call and every
\* identifier returned to a caller has its row
C3_RowBeforeThread ==
  /\ [](\A id \in Ids :
          (thr[id].pc \in {"spawned", "run", "turn", "done"} \/ run[id].pc # "idle")
             => id \in DOMAIN GetSubAgents)
  /\ [](api.op = "spawned" => api.id \in DOMAIN GetSubAgents)
  /\ [][\A id \in Ids :
          (id \notin DOMAIN subAgents /\ id \in DOMAIN subAgents') =>
             /\ subAgents'[id].status = "running"
             /\ subAgents'[id].progress = 0
             /\ thr'[id].pc = "saved"
             /\ run'[id].pc = "idle"]_vars

\* the first model call of a run is in flight and ListAll() shows the run
C3_Witness ==
  \E id \in Ids :
     /\ run[id].pc = "llm"
     /\ run[id].calls = 1
     /\ id \in DOMAIN GetSubAgents
     /\ GetSubAgents[id].status = "running"

Finished(id) ==
  /\ id \in DOMAIN subAgents
  /\ Terminal(subAgents[id])
  /\ subAgents[id].finished_at # Null
  /\ subAgents[id].progress = 100

C5_OutcomeFollowsRun ==
  \A id \in Ids :
     (thr[id].kind = "sub" /\ thr[id].pc = "done") =>
        /\ run[id].err = NoErr =>
              subAgents[id].status = "completed" /\ subAgents[id].result = run[id].ret
        /\ run[id].err # NoErr =>
              subAgents[id].status = "failed"
              /\ subAgents[id].result = <<"Error: ">> \o run[id].err

\* one run failed on the deadline
C5_Witness ==
  \E id \in Ids :
     /\ thr[id].kind = "sub"
     /\ thr[id].pc = "done"
     /\ run[id].err = DeadlineExceeded
     /\ subAgents[id].result = <<"Error: ", "context deadline exceeded">>

\* C6: SpawnNamed with a name that has no definition returns the not-found
\* error and leaves the rows and the goroutines as they are; a row of a named
\* run only ever appears for a name that has a definition
C6_MissingDefinition ==
  /\ [][(api'.op = "SpawnNamed" /\ api'.arg \notin DOMAIN defs) =>
          /\ api'.err = <<"sub-agent definition for '">> \o api'.arg \o <<"' not found">>
          /\ UNCHANGED <<subAgents, thr, run, agent, defs>>]_vars
  /\ [][\A id \in Ids :
          (id \notin DOMAIN subAgents /\ id \in DOMAIN subAgents'
             /\ subAgents'[id].prompt[1] = "[") =>
                <<subAgents'[id].prompt[2]>> \in DOMAIN defs]_vars

\* SpawnNamed has just failed for a name without definition
C6_Witness ==
  /\ api.op = "SpawnNamed"
  /\ api.arg \notin DOMAIN defs
  /\ api.err # NoErr
  /\ subAgents = EmptyTable

\* the tool names a tools field lists: a piece between commas that is the name
\* with blanks around it
Listed(field, name) ==
  \E i \in 1 .. Len(field), j \in 1 .. Len(field) :
     /\ i <= j
     /\ i = 1 \/ field[i - 1] = ","
     /\ j = Len(field) \/ field[j + 1] = ","
     /\ \E k \in i .. j :
          /\ <<field[k]>> = name
          /\ \A m \in (i .. j) \ {k} : field[m] = " "

\* C7: the sub-agent of a named run has the full registry when the tools field
\* is "*" or empty, and otherwise exactly the registered tools the field lists
C7_ToolView ==
  \A id \in Ids :
     thr[id].pc = "run" =>
        LET field == defs[<<"coder">>].Tools
        IN IF field = <<"*">> \/ field = <<>>
           THEN agent[id].tools = Registry
           ELSE agent[id].tools = {name \in Registry : Listed(field, name)}

\* a field that lists a registered tool with a blank and an unknown one
C7_Witness ==
  \E id \in Ids :
     /\ thr[id].pc = "run"
     /\ defs[<<"coder">>].Tools = <<" ", "a", ",", "z">>
     /\ agent[id].tools = {<<"a">>}

\* C8: one Run makes at most 8 model calls
C8_BoundedIterations == run[MainProc].calls <= 8

Blank(raw) == \A i \in 1 .. Len(raw) : raw[i] = "ws"

LastOf(seq) == seq[Len(seq)]

\* the response rawResponse ended the Run as its verbatim answer
ReturnedRaw(g, o) ==
  /\ run[g].pc = "ret"
  /\ run[g].err = NoErr
  /\ run[g].ret = run[g].raw
  /\ LastOf(agent[o].history) = Msg("assistant", run[g].raw, <<>>)
  /\ LastOf(messages) = [role |-> "assistant", content |-> run[g].raw]

NoObject(raw) ==
  LET tp == Unmarshal(extractJSON(raw))
  IN tp.err \/ (tp.Final = <<>> /\ tp.Tool = <<>>)

HasFinal(raw) ==
  LET tp == Unmarshal(extractJSON(raw))
  IN ~tp.err /\ tp.Final # <<>>

\* the policy of C9 for the responses that count as non-empty
NeverFatal(nonEmpty) ==
  /\ (run[MainProc].answered /\ nonEmpty /\ NoObject(run[MainProc].raw))
        => ReturnedRaw(MainProc, MainAgent)
  /\ (run[MainProc].answered /\ nonEmpty /\ HasFinal(run[MainProc].raw))
        => /\ run[MainProc].pc = "ret"
           /\ run[MainProc].err = NoErr
           /\ run[MainProc].ret = Unmarshal(extractJSON(run[MainProc].raw)).Final
           /\ LastOf(agent[MainAgent].history) = Msg("assistant", run[MainProc].ret, <<>>)
           /\ LastOf(messages) = [role |-> "assistant", content |-> run[MainProc].ret]

\* C9 as stated: every response other than the empty string that yields no
\* object, or an object without final and tool, is returned verbatim with a nil
\* error and recorded as the assistant message; a response whose object has a
\* final ends the Run with that final and no tool is invoked
C9_NeverFatal == NeverFatal(run[MainProc].raw # <<>>)

\* C9 amended: the same for every response that is not blank (neither empty nor
\* white space only)
C9_NeverFatalNonBlank == NeverFatal(~Blank(run[MainProc].raw))

\* the second response of a Run carries a final and a tool: the final is returned
C9_Witness ==
  /\ run[MainProc].calls = 2
  /\ run[MainProc].raw = <<"{", "tool:a", "final:A", "}">>
  /\ run[MainProc].pc = "ret"
  /\ run[MainProc].ret = <<"A">>

\* C10: a blank response ends the Run with the fixed diagnostic and no error
C10_EmptyResponse ==
  (run[MainProc].answered /\ Blank(run[MainProc].raw)) =>
     /\ run[MainProc].pc = "ret"
     /\ run[MainProc].err = NoErr
     /\ run[MainProc].ret = EmptyResponseMsg
     /\ run[MainProc].ret # <<>>

\* the second response of a Run is white space only
C10_Witness ==
  /\ run[MainProc].answered
  /\ run[MainProc].calls = 2
  /\ run[MainProc].raw = <<"ws", "ws">>
  /\ run[MainProc].ret = EmptyResponseMsg

\* the row Run / RunVision writes for the prompt of the turn in progress
LastUser(history) ==
  history[CHOOSE i \in 1 .. Len(history) :
             history[i].role = "user" /\ \A j \in (i + 1) .. Len(history) : history[j].role # "user"]

UserRow(history) ==
  [role |-> "user",
   content |-> IF LastUser(history).images # <<>>
               THEN <<"[Image Attached] ">> \o LastUser(history).content
               ELSE LastUser(history).content]

\* what a step of the main conversation does to the durable log: entering Run
\* adds the user row row, a return without error for which recorded holds (of the
\* state after the step) adds the
\* assistant row with the returned answer, nothing else writes
LogGrowth(recorded, row) ==
  /\ (run[MainProc].pc = "idle" /\ run'[MainProc].pc # "idle")
       => messages' = Append(messages, row)
  /\ (run[MainProc].pc \notin {"idle", "ret"} /\ run'[MainProc].pc = "ret"
        /\ run'[MainProc].err = NoErr /\ recorded)
       => messages' = Append(messages, [role |-> "assistant", content |-> run'[MainProc].ret])
  /\ (run[MainProc].pc \notin {"idle", "ret"} /\ run'[MainProc].pc = "ret"
        /\ run'[MainProc].err = NoErr /\ ~recorded)
       => messages' = messages
  /\ (run[MainProc].pc # "idle" /\ run'[MainProc].pc # "ret")
       => messages' = messages
  /\ (run[MainProc].pc = "ret") => messages' = messages

C12_PersistBeforeUse ==
  /\ run[MainProc].pc \in {"loop", "llm", "tool"} =>
        /\ Len(messages) > 0
        /\ LastOf(messages) = UserRow(agent[MainAgent].history)
  /\ (run[MainProc].pc = "ret" /\ run[MainProc].err = NoErr /\ ~Blank(run[MainProc].raw)) =>
        /\ Len(messages) > 1
        /\ LastOf(messages) = [role |-> "assistant", content |-> run[MainProc].ret]
        /\ messages[Len(messages) - 1] = UserRow(agent[MainAgent].history)

\* the first model call of the second turn is in flight: the log holds the
\* first turn and the user row of the second
C12_Witness ==
  /\ run[MainProc].pc = "llm"
  /\ run[MainProc].calls = 1
  /\ Len(messages) = 3
  /\ messages[2].role = "assistant"
  /\ messages[3] = [role |-> "user", content |-> <<"hi">>]

\* the response asks for a tool that is not among tools, and carries no final
UnknownTool(raw, tools) ==
  LET tp == Unmarshal(extractJSON(raw))
  IN ~Blank(raw) /\ ~tp.err /\ tp.Final = <<>> /\ tp.Tool # <<>> /\ tp.Tool \notin tools

\* C13: a tool failure never ends the Run and never is its error: when the
\* invocation returns (a result or an error) the loop appends the observation
\* to the in-memory history and is back at the top of the loop, where the next
\* model call is made; the same when the requested tool is unknown; neither
\* writes to the durable log
C13_ToolFailureContinues ==
  [][/\ (run[MainProc].pc = "tool" /\ run'[MainProc].pc # "tool") =>
          /\ run'[MainProc].pc = "loop"
          /\ run'[MainProc].err = NoErr
          /\ \E result \in {<<"res">>, <<"Tool error: ", "e">>} :
                agent'[MainAgent].history =
                   Append(agent[MainAgent].history,
                          Msg("assistant", <<"Observation: ">> \o result, <<>>))
          /\ messages' = messages
     /\ (run[MainProc].pc = "llm" /\ run'[MainProc].answered
           /\ UnknownTool(run'[MainProc].raw, agent[MainAgent].tools)) =>
          /\ run'[MainProc].pc = "loop"
          /\ run'[MainProc].err = NoErr
          /\ agent'[MainAgent].history =
                Append(agent[MainAgent].history,
                       Msg("assistant",
                           NotFoundMsg(Unmarshal(extractJSON(run'[MainProc].raw)).Tool), <<>>))
          /\ messages' = messages
     /\ (run[MainProc].pc = "loop" /\ run'[MainProc].pc # "loop" /\ ~run[MainProc].expired) =>
          run'[MainProc].pc = "llm"]_vars

\* the model call that follows a failed tool invocation is in flight
C13_Witness ==
  /\ run[MainProc].pc = "llm"
  /\ run[MainProc].calls = 2
  /\ LastOf(agent[MainAgent].history).content = <<"Observation: ", "Tool error: ", "e">>

C15_ModelRestored ==
  (\A g \in Procs : run[g].pc \in {"idle", "ret"}) => client.Model = DefaultModel

\* the session of the row id is over
SessionDone(id) == thr[id].kind = "council" /\ thr[id].pc = "done"

\* entry is a contribution of the member name
ContributionOf(entry, name) ==
  /\ Len(entry) >= Len(name) + 2
  /\ SubSeq(entry, 1, Len(name) + 2) = <<"[">> \o name \o <<"]: ">>

\* C16: the final transcript of a session with N resolved members is the entry
\* "Council Problem: <problem>" followed by at most 2*N contributions
\* "[<member>]: <response>" that are a subsequence of the round-robin order
\* (members 1..N for round 1, then 1..N for round 2), so that each member
\* contributes at most twice; the result of the row is that transcript joined
C16_Transcript ==
  \A id \in Ids :
     SessionDone(id) =>
        LET t == thr[id].transcript
            n == Len(thr[id].members)
            k == Len(t) - 1
        IN /\ k >= 0
           /\ t[1] = <<"Council Problem: ">> \o thr[id].problem
           /\ k <= 2 * n
           /\ \E f \in [1 .. k -> 1 .. 2 * n] :
                 /\ \A i \in 1 .. k, j \in 1 .. k : i < j => f[i] < f[j]
                 /\ \A i \in 1 .. k :
                       ContributionOf(t[i + 1], thr[id].members[((f[i] - 1) % n) + 1].Name)
           /\ subAgents[id].result = Join(t, "\n\n---\n\n")

\* a session of two members in which only the second member's first turn and
\* the first member's second turn contributed
C16_Witness ==
  \E id \in Ids :
     /\ SessionDone(id)
     /\ Len(thr[id].members) = 2
     /\ Len(thr[id].transcript) = 3
     /\ ContributionOf(thr[id].transcript[2], <<"ghost">>)
     /\ ContributionOf(thr[id].transcript[3], <<"coder">>)

\* C17: a member turn that ends with an error (transport or deadline) adds no
\* transcript entry and the session goes on with the next turn; a session ends
\* only after all 2*N turns were attempted, and then as completed with the
\* joined transcript as result, never as failed
C17_FailedTurnSkipped ==
  /\ [][\A id \in Ids :
          (thr[id].kind = "council" /\ thr[id].pc = "run" /\ thr'[id].pc # "run") =>
             /\ thr'[id].pc = "turn"
             /\ thr'[id].turn = thr[id].turn + 1
             /\ run[id].err # NoErr => thr'[id].transcript = thr[id].transcript
             /\ subAgents'[id] = subAgents[id]]_vars
  /\ [][\A id \in Ids :
          (thr[id].kind = "council" /\ thr[id].pc = "turn" /\ thr'[id].pc # "turn") =>
             IF thr[id].turn <= 2 * Len(thr[id].members)
             THEN thr'[id].pc = "run" /\ run'[id].pc = "loop"
             ELSE thr'[id].pc = "done"]_vars
  /\ [](\A id \in Ids :
          /\ SessionDone(id) =>
                /\ thr[id].turn = 2 * Len(thr[id].members) + 1
                /\ subAgents[id].status = "completed"
                /\ subAgents[id].result = Join(thr[id].transcript, "\n\n---\n\n")
          /\ (thr[id].kind = "council" /\ id \in DOMAIN subAgents)
                => subAgents[id].status # "failed")

\* a session of two members in which every turn failed is completed with the
\* problem statement as its result
C17_Witness ==
  \E id \in Ids :
     /\ SessionDone(id)
     /\ Len(thr[id].members) = 2
     /\ run[id].err # NoErr
     /\ thr[id].transcript = <<<<"Council Problem: ", "q">>>>
     /\ subAgents[id].status = "completed"
     /\ subAgents[id].result = <<"Council Problem: ", "q">>

\* the names a council declares that have a definition, in declared order
DefinedNames(councilName) ==
  LET names == Split(councils[councilName], ",")
  IN SelectSeq([i \in 1 .. Len(names) |-> TrimSpace(names[i], " ")],
               LAMBDA name : name \in DOMAIN defs)

\* C18: RunCouncilSession fails with "council not found" for an unknown council
\* and with "no valid members" when no declared name has a definition, and a
\* failed call leaves rows, goroutines and agents as they are; the row of a
\* session only appears for a known council with at least one defined member,
\* and the session runs with exactly the declared names that have a definition
C18_CouncilResolution ==
  /\ [][api'.op = "RunCouncilSession" =>
          /\ api'.err # NoErr
          /\ UNCHANGED <<subAgents, thr, run, agent, defs, councils>>
          /\ api'.arg \notin DOMAIN councils =>
                api'.err = <<"council '">> \o api'.arg \o <<"' not found">>
          /\ (api'.arg \in DOMAIN councils /\ DefinedNames(api'.arg) = <<>>) =>
                api'.err = <<"no valid members found for council '">> \o api'.arg \o <<"'">>]_vars
  /\ [][\A id \in Ids :
          (id \notin DOMAIN subAgents /\ id \in DOMAIN subAgents' /\ thr'[id].kind = "council") =>
             /\ thr'[id].council \in DOMAIN councils
             /\ DefinedNames(thr'[id].council) # <<>>
             /\ thr'[id].members =
                   [i \in 1 .. Len(DefinedNames(thr'[id].council)) |->
                      defs[DefinedNames(thr'[id].council)[i]]]]_vars
  /\ [](\A id \in Ids :
          (thr[id].kind = "council" /\ thr[id].pc # "none") =>
             /\ id \in DOMAIN subAgents
             /\ Len(thr[id].members) > 0)

\* a session of a council that declares three names runs with the only one
\* that has a definition
C18_Witness ==
  \E id \in Ids :
     /\ thr[id].kind = "council"
     /\ thr[id].pc = "run"
     /\ Len(Split(councils[thr[id].council], ",")) = 3
     /\ Len(thr[id].members) = 1
     /\ thr[id].members[1].Name = <<"ghost">>

\* the number of dispatch calls executeTask has made for the task tid
Dispatches(tid) ==
  IF tid \in DOMAIN sched.jobs
  THEN sched.jobs[tid].running + sched.jobs[tid].returned + sched.jobs[tid].failed
          + sched.jobs[tid].finished
  ELSE 0

OneShot(tid) == tid \in DOMAIN sched.jobs /\ sched.jobs[tid].task.Type = "one-shot"

\* C19: whatever the number of AddTask calls after Start, the dispatch of a
\* one-shot task is invoked at most once
C19_OneShotFiresOnce == \A tid \in 1 .. MaxTasks : OneShot(tid) => Dispatches(tid) <= 1

\* C20: once an executeTask of a one-shot task is over, its dispatch having
\* returned with or without error, the task's row is not in the table
C20_OneShotDeleted ==
  \A tid \in 1 .. MaxTasks :
     (OneShot(tid) /\ sched.jobs[tid].failed + sched.jobs[tid].finished > 0)
        => tid \notin DOMAIN LoadScheduledTasks(scheduledTasks)

Recurring(tid) == tid \in DOMAIN sched.jobs /\ sched.jobs[tid].task.Type = "recurring"

\* C21: after Start and any number of AddTask calls, a recurring task has at
\* most one handler registered with the calendar engine, and the engine starts
\* at most one dispatch of it at any one calendar instant
C21_ReloadIdempotent ==
  \A tid \in 1 .. MaxTasks :
     Recurring(tid) => /\ Len(sched.jobs[tid].handlers) <= 1
                       /\ sched.jobs[tid].fires <= 1

\* the step is a dispatch of an executeTask goroutine of the task tid
Fired(tid) ==
  /\ tid \in DOMAIN sched.jobs
  /\ sched'.jobs[tid].waiting < sched.jobs[tid].waiting

\* the step enters Run on the main agent with the task's prompt behind the prefix
MainSink(task) ==
  agent'[MainAgent].history =
     Append(agent[MainAgent].history,
            Msg("user", <<"[Scheduled Task]: ">> \o task.Prompt, <<>>))

\* the step calls SpawnNamed(target_name, prompt)
SubAgentSink(task) ==
  /\ api'.op = "SpawnNamed"
  /\ api'.arg = task.TargetName
  /\ api'.err = NoErr => /\ thr'[api'.id].kind = "sub"
                          /\ thr'[api'.id].prompt = task.Prompt

\* the step calls RunCouncilSession(target_name, prompt)
CouncilSink(task) ==
  /\ api'.op = "RunCouncilSession"
  /\ api'.arg = task.TargetName
  /\ api'.err = NoErr => /\ thr'[api'.id].kind = "council"
                          /\ thr'[api'.id].problem = task.Prompt

\* C22: every fire of a task dispatches to the one sink its target_type
\* names: main to Run on the main agent with the prompt behind
\* "[Scheduled Task]: ", subagent to SpawnNamed(target_name, prompt), council to
\* RunCouncilSession(target_name, prompt); the other two sinks are not reached
C22_OneSink ==
  [][\A tid \in 1 .. FireTasks :
        Fired(tid) =>
          LET task == sched.jobs[tid].task
          IN /\ task.TargetType \in {"main", "subagent", "council"}
             /\ task.TargetType = "main" =>
                   /\ MainSink(task)
                   /\ api'.op \notin {"SpawnNamed", "RunCouncilSession"}
                   /\ UNCHANGED <<subAgents, thr>>
             /\ task.TargetType = "subagent" =>
                   /\ SubAgentSink(task)
                   /\ UNCHANGED <<agent, run, messages>>
             /\ task.TargetType = "council" =>
                   /\ CouncilSink(task)
                   /\ UNCHANGED <<agent, run, messages>>]_vars

\* a task for the main agent is inside Run, its prefixed prompt the last entry
\* of the history
C22_Witness ==
  \E t1 \in 1 .. FireTasks :
     /\ t1 \in DOMAIN sched.jobs
     /\ sched.jobs[t1].task.TargetType = "main"
     /\ sched.jobs[t1].running > 0
     /\ Len(agent[MainAgent].history) > 0
     /\ LastOf(agent[MainAgent].history).content = <<"[Scheduled Task]: ", "ping">>

\* the step takes a webhook request: the server's record of it
Arrived == Len(http') = Len(http) + 1 /\ http'[Len(http')].kind = "webhook"

\* p is the template with each of its "{{payload}}" replaced by the body:
\* the pieces of p, one for each token of the template, are the token itself
\* or the body
IsSubstitution(p, template, body) ==
  \E off \in [1 .. Len(template) + 1 -> 0 .. Len(p)] :
     /\ off[1] = 0
     /\ off[Len(template) + 1] = Len(p)
     /\ \A i \in 1 .. Len(template) :
          IF template[i] = "{{payload}}"
          THEN /\ off[i + 1] = off[i] + Len(body)
               /\ SubSeq(p, off[i] + 1, off[i + 1]) = body
          ELSE /\ off[i + 1] = off[i] + 1
               /\ p[off[i + 1]] = template[i]

\* the step is the dispatch of the goroutine of the request i
Dispatched(i) == http[i].pc = "go" /\ http'[i].pc # "go"

\* C23: a webhook request whose id is not stored is answered 404 and starts no
\* goroutine; one whose id is stored is answered 200 and starts one goroutine,
\* which dispatches once: Run on the main agent for the target "main", else
\* SpawnNamed(target_agent), with the template in which every "{{payload}}" is
\* replaced by the request body; nothing else dispatches
C23_WebhookDispatch ==
  [][/\ Arrived =>
          LET r == http'[Len(http')]
          IN /\ (r.id # <<>> /\ r.id \notin DOMAIN webhooks) => (r.status = 404 /\ r.pc = "none")
             /\ r.pc = "go" <=> (r.id # <<>> /\ r.id \in DOMAIN webhooks)
             /\ r.pc = "go" =>
                   /\ r.status = 200
                   /\ r.target = webhooks[r.id].TargetAgent
                   /\ IsSubstitution(r.prompt, webhooks[r.id].PromptTemplate, r.body)
             /\ UNCHANGED <<agent, run, subAgents, thr, messages>>
     /\ \A i \in 1 .. Len(http) :
          /\ http'[i].pc = "go" => http[i].pc = "go"
          /\ Dispatched(i) =>
                IF http[i].target = <<"main">>
                THEN /\ agent'[MainAgent].history =
                          Append(agent[MainAgent].history, Msg("user", http[i].prompt, <<>>))
                     /\ api'.op # "SpawnNamed"
                     /\ UNCHANGED <<subAgents, thr>>
                ELSE /\ api'.op = "SpawnNamed"
                     /\ api'.arg = http[i].target
                     /\ api'.err = NoErr => thr'[api'.id].prompt = http[i].prompt
                     /\ UNCHANGED <<agent, run, messages>>
     /\ (\A i \in 1 .. Len(http) : ~Dispatched(i)) =>
          /\ api'.op # "SpawnNamed"
          /\ UserTurns(agent'[MainAgent].history) = UserTurns(agent[MainAgent].history)
          /\ UNCHANGED <<subAgents, thr>>]_vars

\* a request for an unknown id was answered 404, and the Run the goroutine of
\* an accepted one started on the main agent is over: its prompt is the
\* template's two placeholders replaced by the body
C23_Witness ==
  \E i, j \in 1 .. Len(http) :
     /\ http[i].status = 404 /\ http[i].pc = "none"
     /\ http[j].status = 200 /\ http[j].pc = "done"
     /\ http[j].target = <<"main">>
     /\ http[j].prompt = <<"hello", "{{payload}}", "hello", "{{payload}}">>
     /\ \E k \in 1 .. Len(agent[MainAgent].history) :
          agent[MainAgent].history[k] = Msg("user", http[j].prompt, <<>>)

\* C24: a webhook request whose webhook names a target that is neither "main"
\* nor a defined agent is answered 404
C24_MissingTarget404 ==
  [][Arrived =>
       LET r == http'[Len(http')]
       IN (/\ r.id \in DOMAIN webhooks
           /\ webhooks[r.id].TargetAgent # <<"main">>
           /\ ~GetSubAgentDefinition(defs, webhooks[r.id].TargetAgent).found)
          => r.status = 404]_vars

\* the log after is the log before with the row put in at the place p
InsertedAt(after, before, row, p) ==
  /\ Len(after) = Len(before) + 1
  /\ after[p] = row
  /\ \A i \in 1 .. Len(before) : after[IF i < p THEN i ELSE i + 1] = before[i]

\* C25: when Compact has fetched CompactChunk messages, its delete removes
\* those, the oldest, and keeps the other messages in their order, and its
\* insert adds one system message, the summary, in front of the messages that
\* remain, which keep their order
C25_SummaryPrefaces ==
  [][/\ (compact.pc = "llm" /\ compact'.pc = "deleted" /\ Len(compact.msgs) = CompactChunk) =>
          messages' = SubSeq(messages, CompactChunk + 1, Len(messages))
     /\ (compact.pc = "deleted" /\ compact'.pc = "idle" /\ Len(compact.msgs) = CompactChunk) =>
          InsertedAt(messages', messages,
                     [role |-> "system",
                      content |-> <<"Summary of previous conversation: ">> \o compact.summary],
                     1)]_vars

\* C26: the request of every model call in flight names the model of the
\* agent whose Run issued it, or the client's default when that agent has no
\* model of its own
C26_ModelPerTurn ==
  \A g \in Procs :
     run[g].pc = "llm" =>
        LET a == agent[IF g \in Ids THEN g ELSE MainAgent]
        IN run[g].sentModel = IF a.model # <<>> THEN a.model ELSE DefaultModel

\* the Run / RunVision on the frame g is in progress
InTurn(g) == run[g].pc \in {"loop", "llm", "tool"}

\* C27: whichever surfaces drive the main agent, at most one Run or RunVision
\* on it is in progress at any time
C27_OneTurnAtATime == Cardinality({g \in MainProcs : InTurn(g)}) <= 1

\* C29: a tool executed within a turn of the main agent finds in
\* LastUserImages the images the turn's request supplied, and a tool executed
\* by a "/tool" command was handed those of the command's request; none when
\* the request carried none
C29_ImagesTurnLocal ==
  /\ \A g \in MainProcs :
        run[g].pc = "tool" => agent[MainAgent].lastUserImages = run[g].images
  /\ \A i \in 1 .. Len(http) :
        (http[i].kind = "tool" /\ http[i].pc = "done") => http[i].seen = http[i].images

\* the place in the history of the user message of the turn in progress
Originating(history) ==
  CHOOSE i \in 1 .. Len(history) :
     history[i].role = "user" /\ \A j \in (i + 1) .. Len(history) : history[j].role # "user"

\* C28: the images supplied to a Run are on the originating user message only,
\* and of the model calls of the turn only the first carries them
C28_ImagesOnlyFirstCall ==
  run[MainProc].pc = "llm" =>
     LET h == agent[MainAgent].history
     IN /\ \A i \in (Originating(h) + 1) .. Len(h) : h[i].images = <<>>
        /\ run[MainProc].calls > 1 => run[MainProc].sentImages[Originating(h)] = <<>>

\* C28 as amended: the images supplied to a Run are on the originating user
\* message only, no message appended later in the Run carries any, and every
\* model call of the turn, the first and the later ones, sends that message
\* with the images
C28_ImagesOnOriginatingMessage ==
  run[MainProc].pc = "llm" =>
     LET h == agent[MainAgent].history
     IN /\ h[Originating(h)].images = run[MainProc].images
        /\ \A i \in (Originating(h) + 1) .. Len(h) : h[i].images = <<>>
        /\ Len(run[MainProc].sentImages) = Len(h)
        /\ \A i \in 1 .. Len(h) : h[i].role # "user" => run[MainProc].sentImages[i] = <<>>
        /\ run[MainProc].sentImages[Originating(h)] = run[MainProc].images

\* the second model call of a RunVision is in flight, after a tool iteration,
\* and its request carries the image
C28_Witness ==
  /\ run[MainProc].pc = "llm"
  /\ run[MainProc].calls = 2
  /\ run[MainProc].images = <<"img">>
  /\ Len(agent[MainAgent].history) > Originating(agent[MainAgent].history)
  /\ run[MainProc].sentImages[Originating(agent[MainAgent].history)] = <<"img">>

\* a step of the loop of a background run: its frame or its agent changes, or
\* the compact tool it is executing moves
BackgroundLoopStep ==
  \E id \in Ids :
     \/ run'[id] # run[id]
     \/ agent'[id] # agent[id]
     \/ (run[id].pc = "compact" /\ compact' # compact)

\* C30: no step of the loop of a run started by Spawn, SpawnNamed or
\* RunCouncilSession adds, deletes or changes a row of the main message log,
\* however the runs interleave with main-conversation turns
C30_BackgroundRunsLeaveLog == [][BackgroundLoopStep => messages' = messages]_vars

\* the step in which the session id starts a member turn
TurnStarts(id) ==
  /\ thr[id].kind = "council"
  /\ thr[id].pc \in {"spawned", "turn"}
  /\ thr'[id].pc = "run"

\* C31: the progress a council session writes before a member turn lies in
\* [0,100] and is strictly larger than the progress written before every
\* earlier turn of the session
C31_ProgressGrowsByTurn ==
  [][\A id \in Ids : TurnStarts(id) =>
        /\ subAgents'[id].progress \in 0 .. 100
        /\ subAgents'[id].progress > subAgents[id].progress]_vars

\* the row of the job tid is stamped or deleted in the step
RowUpdated(tid) ==
  \/ tid \notin DOMAIN scheduledTasks'.rows
  \/ scheduledTasks'.rows[tid].LastRun # scheduledTasks.rows[tid].LastRun

\* C32: a job's row is stamped or deleted only by a fire of that job whose
\* dispatch call has returned, in the step that ends that fire and touches no
\* other job; and a fire whose dispatch has returned can always do its update,
\* whatever the fires of the other jobs are doing
C32_UpdateAfterDispatch ==
  /\ [][\A tid \in DOMAIN scheduledTasks.rows : RowUpdated(tid) =>
          /\ tid \in DOMAIN sched.jobs
          /\ sched.jobs[tid].returned > 0
          /\ sched'.jobs[tid] = [sched.jobs[tid] EXCEPT !.returned = @ - 1, !.finished = @ + 1]
          /\ \A other \in DOMAIN sched.jobs \ {tid} : sched'.jobs[other] = sched.jobs[other]
          /\ \A other \in DOMAIN scheduledTasks.rows \ {tid} :
                /\ other \in DOMAIN scheduledTasks'.rows
                /\ scheduledTasks'.rows[other] = scheduledTasks.rows[other]]_vars
  /\ [](\A tid \in DOMAIN sched.jobs : sched.jobs[tid].returned > 0 => ENABLED ExecuteFinish(tid))

\* a one-shot job's row was deleted by its fire while a fire of another job is
\* still inside its dispatch call
C32_Witness ==
  \E tid \in DOMAIN sched.jobs, other \in DOMAIN sched.jobs :
     /\ tid # other
     /\ sched.jobs[tid].finished > 0
     /\ tid \notin DOMAIN scheduledTasks.rows
     /\ sched.jobs[other].running > 0

\* the schedule of a row parses
ValidSchedule(task) ==
  \/ task.Type = "recurring" /\ ValidCron(task.Schedule)
  \/ task.Type = "one-shot" /\ ParseRFC3339(task.Schedule).ok

\* the Scheduler has armed a handler or a timer for the job, or started it
Armed(job) == Len(job.handlers) + job.timers + job.waiting > 0

\* C33: a row whose schedule does not parse is never held, armed or dispatched
\* by the Scheduler; the pass that loads the table arms every row whose
\* schedule parses, whatever rows come before it; and the add action of the
\* schedule_task tool answers an invalid one-shot timestamp with an error and
\* leaves the table as it was
C33_InvalidJobSkipped ==
  /\ [](\A tid \in DOMAIN sched.jobs : ValidSchedule(sched.jobs[tid].task))
  /\ [][(~sched.started /\ sched'.started) =>
          \A tid \in DOMAIN scheduledTasks.rows :
             IF ValidSchedule(scheduledTasks.rows[tid])
             THEN tid \in DOMAIN sched'.jobs /\ Armed(sched'.jobs[tid])
             ELSE tid \notin DOMAIN sched'.jobs]_vars
  /\ [][(/\ api'.op = "schedule_task add"
         /\ api'.arg[1] = "one-shot"
         /\ ~ParseRFC3339(Tail(api'.arg)).ok) =>
          /\ api'.err # NoErr
          /\ scheduledTasks' = scheduledTasks]_vars

\* the Scheduler started on a table whose first row does not parse and whose
\* second row does: the second is armed, the first is not held; and the tool
\* has just rejected a one-shot task whose timestamp does not parse
C33_Witness ==
  /\ sched.started
  /\ api.op = "schedule_task add"
  /\ api.arg = <<"one-shot", "tomorrow">>
  /\ api.err # NoErr
  /\ {1, 2} \subseteq DOMAIN scheduledTasks.rows
  /\ ~ValidSchedule(scheduledTasks.rows[1])
  /\ 1 \notin DOMAIN sched.jobs
  /\ 2 \in DOMAIN sched.jobs
  /\ Armed(sched.jobs[2])

\* a failure the claim counts as transient
Transient(e) ==
  \/ Contains(e, "EOF")
  \/ Contains(e, "timeout")
  \/ Contains(e, "connection reset by peer")
  \/ Contains(e, "500")

\* the step is a failed attempt of the call
AttemptFails == call.pc = "do" /\ call'.attempts = call.attempts + 1 /\ call'.ret = <<>>

\* C34: one call of GenerateResponse makes at most 3 attempts; a transient
\* failure of attempt 1 or 2 is followed by a back-off of as many seconds as the
\* retry's index and another attempt; a successful attempt returns its content
\* at once; the failure of attempt 3 returns an error
C34_RetriesTransient ==
  /\ [](call.attempts <= maxRetries + 1)
  /\ [][(AttemptFails /\ call.attempts < maxRetries /\ Transient(call'.lastErr)) =>
          call'.pc = "sleep"]_vars
  /\ [][(call.pc = "sleep" /\ call'.pc = "do") =>
          call'.slept = Append(call.slept, Len(call.slept) + 1)]_vars
  /\ [][(call.pc = "do" /\ call'.ret # <<>>) =>
          call'.pc = "returned" /\ call'.err = NoErr /\ call'.ret \in Contents]_vars
  /\ [][(AttemptFails /\ call.attempts = maxRetries) =>
          call'.pc = "returned" /\ call'.err # NoErr]_vars

\* C35: a call of Compact that finds fewer than CompactMin messages makes no
\* model call and leaves the log as it is; a call whose summarization fails
\* returns an error and leaves the log as it is; a step of Compact changes the
\* log only when the call fetched at least CompactMin messages and its
\* summarization has returned a summary
C35_CompactFrame ==
  /\ [][(compact.pc = "idle" /\ compact' # compact /\ Len(messages) < CompactMin) =>
          /\ compact'.pc = "idle"
          /\ compact'.ret = <<"History is too short to compact.">>
          /\ messages' = messages]_vars
  /\ [][(compact.pc = "llm" /\ compact'.err # NoErr) =>
          /\ compact'.pc = "idle"
          /\ messages' = messages]_vars
  /\ [][(compact' # compact /\ messages' # messages) =>
          /\ Len(compact.msgs) >= CompactMin
          /\ compact'.summary \in Summaries
          /\ compact'.err = NoErr]_vars

\* the summarization of a call that fetched enough messages has failed
C35_Witness ==
  /\ compact.pc = "idle"
  /\ compact.err # NoErr
  /\ Len(messages) >= CompactMin

\* the memories that hold the merged content of a group
MergedRows(group) ==
  {i \in DOMAIN memories.rows :
      memories.rows[i].Content = group.NewContent /\ memories.rows[i].Tags = <<"merged">>}

\* the source memories of a group that are in the table
SourcesPresent(group) == {group.IDs[j] : j \in 1 .. Len(group.IDs)} \cap DOMAIN memories.rows

\* C36: for every merge group of a plan a call of optimize_memory is applying,
\* either all its source memories are in the table and the merged memory is
\* not, or none of its sources is and the merged memory is there once
C36_MergeGroupsAtomic ==
  \A r \in ToolProcs :
     opt[r].pc \in {"delete", "merge"} =>
        \A g \in 1 .. Len(opt[r].plan.Merge) :
           LET group == opt[r].plan.Merge[g]
           IN \/ /\ SourcesPresent(group) = {group.IDs[j] : j \in 1 .. Len(group.IDs)}
                 /\ MergedRows(group) = {}
              \/ /\ SourcesPresent(group) = {}
                 /\ Cardinality(MergedRows(group)) = 1

\* C37: IsThinking() of the main agent is true exactly when a Run or RunVision
\* on the main agent is in progress, whichever surfaces drive the turns
C37_ThinkingWhileInTurn ==
  agent[MainAgent].isThinking <=> (\E g \in MainProcs : InTurn(g))

\* the step starts a dispatch of the job tid
DispatchStarts(tid) ==
  /\ tid \in DOMAIN sched.jobs
  /\ tid \in DOMAIN sched'.jobs
  /\ sched'.jobs[tid].waiting < sched.jobs[tid].waiting

\* C38: the Scheduler holds a calendar handler or an armed timer only for jobs
\* whose row is in the table, and no dispatch of a job starts when the job's
\* row is no longer in the table
C38_NoDispatchAfterDelete ==
  /\ [](\A tid \in DOMAIN sched.jobs :
          (Len(sched.jobs[tid].handlers) > 0 \/ sched.jobs[tid].timers > 0) =>
             tid \in DOMAIN scheduledTasks.rows)
  /\ [][\A tid \in 1 .. MaxJobs :
          DispatchStarts(tid) => tid \in DOMAIN scheduledTasks.rows]_vars

\* C39: a job the add action of the schedule_task tool persists while the
\* Scheduler runs is armed by the Scheduler: it holds a handler or a timer for
\* it, or has started it
C39_AddedJobArmed ==
  [][(/\ sched.started
      /\ api'.op = "schedule_task add"
      /\ api'.err = NoErr) =>
        /\ api'.id \in DOMAIN sched'.jobs
        /\ Armed(sched'.jobs[api'.id])]_vars

\* C40: a message is marked read only by a check_inbox call that returns it,
\* whatever send_message does next to it; and a check_inbox call that finds no
\* unread message changes nothing and reports no new messages
C40_NoMessageLost ==
  /\ [][\A i \in 1 .. Len(agentMessages) :
          (agentMessages[i].read = 0 /\ agentMessages'[i].read = 1) =>
             \E r \in ToolProcs :
                /\ inbox[r].pc = "selected"
                /\ inbox'[r].pc = "idle"
                /\ i \in inbox[r].rows]_vars
  /\ [][\A r \in ToolProcs :
          (/\ inbox[r].pc = "idle"
           /\ api'.op = "check_inbox select"
           /\ inbox'[r] # inbox[r]
           /\ Unread(agentMessages, inbox'[r].agent) = {}) =>
             /\ agentMessages' = agentMessages
             /\ inbox'[r].pc = "idle"
             /\ inbox'[r].ret = <<"No new messages.">>]_vars

====
